---------------------------- MODULE Spec2Model ----------------------------
(***************************************************************************)
(* Interview scheduling: calendar availability aggregation                 *)
(* (calendar_integration.py), constraint scoring and ranking, and the      *)
(* candidate self-scheduling token service (scheduling_engine.py).         *)
(*                                                                         *)
(* Instants are whole minutes counted from a Monday 00:00 UTC, so that     *)
(* weekday and hour of day are arithmetic.  isoformat() followed by        *)
(* dateutil's parse() is lossless on datetimes, so an instant is carried   *)
(* as the same integer through the dictionaries the code passes around.    *)
(* Scores and weights are the code's decimals times ten.                   *)
(***************************************************************************)
EXTENDS Integers, Sequences, FiniteSets, TLC

VARIABLES
    \* ---- one find_available_slots request and the calendars it reads
    user_ids,           \* participants, in the order given
    start_time,         \* date_range[0]
    end_time,           \* date_range[1]
    duration_minutes,
    max_slots,
    preferences,        \* the preferences dictionary
    request_constraints,    \* the constraints argument of the request
    clock,              \* datetime.now(), in minutes
    calendars,          \* user id -> what the user's provider holds and answers
    pc,                 \* position in the request
    idx,                \* loop index over the participants
    all_availability,   \* per fetched user, the list get_availability returned
    potential_common,   \* _find_common_slots' running intersection
    visited,            \* participants whose fold iteration was entered
    common_slots,       \* what get_common_availability returned
    evaluated,          \* number of constraint.evaluate calls made
    ranked_slots,       \* what find_available_slots returned
    \* ---- CandidateSchedulingService and the calls made on it
    tokens,             \* self.tokens: token -> token data
    available_slots,    \* self.available_slots: token -> list of slots
    proc,               \* per caller: the call it is in, and its last result
    issues_left,        \* generate_scheduling_token calls still to make
    finds_left,         \* find_available_slots calls still to make
    interviews,         \* log: every schedule_interview call and its token
    served,             \* log: token -> slot ids get_available_slots returned
    consumed,           \* log: tokens a confirm_slot returned an interview for
    \* ---- InterviewScheduler and the calls it makes on its collaborators
    communication_service,  \* TRUE when the constructor was given one
    sched,              \* the operation under way: its arguments and locals
    calls,              \* log: the collaborator calls of that operation
    returned            \* log: the interviews returned so far, by operation

findVars == <<user_ids, start_time, end_time, duration_minutes, max_slots,
              preferences, request_constraints, clock, calendars, pc, idx, all_availability,
              potential_common, visited, common_slots, evaluated, ranked_slots>>

serviceVars == <<tokens, available_slots, proc, issues_left, finds_left,
                 interviews, served, consumed>>

schedulerVars == <<communication_service, sched, calls, returned>>

vars == <<findVars, serviceVars, schedulerVars>>

----------------------------------------------------------------------------
(* Bounds of the model. *)
MaxUsers == 2

(* Program constants. *)
SlotDuration == 30
DefaultMaxSlots == 10
MinutesPerDay == 24 * 60

Min(a, b) == IF a <= b THEN a ELSE b
Max(a, b) == IF a >= b THEN a ELSE b

Range(s) == {s[k] : k \in 1..Len(s)}

(* datetime.weekday() (Monday = 0) and datetime.hour of an instant. *)
Weekday(t) == (t \div MinutesPerDay) % 7
Hour(t) == (t % MinutesPerDay) \div 60
TimeOfDay(t) == t % MinutesPerDay

----------------------------------------------------------------------------
(* Provider adapters. *)

Slot(s, e) == [start_time |-> s, end_time |-> e, duration_minutes |-> e - s]

(* (current_time < busy_end and slot_end > busy_start) *)
Overlaps(s, e, b) == s < b[2] /\ e > b[1]

(* GoogleCalendarIntegration.get_availability: walk the window in          *)
(* slot_duration steps while current_time + slot_duration <= end_time and  *)
(* keep the steps no busy period overlaps.                                 *)
GoogleCells(st, en) == IF en >= st THEN (en - st) \div SlotDuration ELSE 0

(* Mutant: a step is dropped only when a busy period starts inside it.     *)
GoogleAvailabilityStartOnly(busy, st, en) ==
    LET cell(k) == Slot(st + SlotDuration * (k - 1), st + SlotDuration * k)
        free(c) == \A b \in busy : ~(c.start_time <= b[1] /\ b[1] < c.end_time)
    IN  SelectSeq([k \in 1..GoogleCells(st, en) |-> cell(k)], free)

GoogleAvailability(busy, st, en) ==
    LET cell(k) == Slot(st + SlotDuration * (k - 1), st + SlotDuration * k)
        free(c) == \A b \in busy : ~Overlaps(c.start_time, c.end_time, b)
    IN  SelectSeq([k \in 1..GoogleCells(st, en) |-> cell(k)], free)

(* MicrosoftCalendarIntegration._is_within_working_hours with no           *)
(* workingHours in the answer: Monday to Friday, 09:00 to 17:00 inclusive. *)
IsWithinWorkingHours(t) ==
    /\ Weekday(t) \in 0..4
    /\ 540 <= TimeOfDay(t)
    /\ TimeOfDay(t) <= 1020

(* MicrosoftCalendarIntegration.get_availability: one availabilityView     *)
(* character per slot_duration; the end of the window is tested after the  *)
(* character's slot has been appended.                                     *)
MicrosoftCells(view, st, en) ==
    IF Len(view) = 0 THEN 0
    ELSE LET need == IF en > st
                     THEN (en - st + SlotDuration - 1) \div SlotDuration
                     ELSE 1
         IN  Min(Len(view), need)

MicrosoftAvailability(view, st, en) ==
    LET cell(k) == Slot(st + SlotDuration * (k - 1), st + SlotDuration * k)
        n == MicrosoftCells(view, st, en)
        keep(k) == view[k] = "0" /\ IsWithinWorkingHours(cell(k).start_time)
        picked == SelectSeq([k \in 1..n |-> k], keep)
    IN  [j \in 1..Len(picked) |-> cell(picked[j])]

(* Mutant: a failed fetch counts the user as free for the whole window.    *)
AdapterAvailabilityFailOpen(cal, st, en) ==
    IF cal.fails THEN <<Slot(st, en)>>
    ELSE IF cal.provider = "google" THEN GoogleAvailability(cal.busy, st, en)
    ELSE MicrosoftAvailability(cal.view, st, en)

(* The adapters catch every exception of the fetch and return [].          *)
AdapterAvailability(cal, st, en) ==
    IF cal.fails THEN <<>>
    ELSE IF cal.provider = "google" THEN GoogleAvailability(cal.busy, st, en)
    ELSE MicrosoftAvailability(cal.view, st, en)

(* The busy intervals a calendar holds: Google's busy periods, or the      *)
(* availabilityView cells that are not free.                               *)
BusyOf(cal, st) ==
    IF cal.provider = "google" THEN cal.busy
    ELSE IF cal.provider = "microsoft"
    THEN {<<st + SlotDuration * (k - 1), st + SlotDuration * k>> :
              k \in {j \in 1..Len(cal.view) : cal.view[j] # "0"}}
    ELSE {}

----------------------------------------------------------------------------
(* CalendarService._find_common_slots, one participant of the fold.        *)

(* Mutant: the intersection starts at the earlier of the two starts.       *)
IntersectRangesMinStart(common, slots, duration) ==
    LET m == Len(common)
        n == Len(slots)
        c(k) == common[((k - 1) \div n) + 1]
        s(k) == slots[((k - 1) % n) + 1]
        lo(k) == Min(c(k).start_time, s(k).start_time)
        hi(k) == Min(c(k).end_time, s(k).end_time)
        ok(k) == lo(k) < hi(k) /\ hi(k) - lo(k) >= duration
        picked == SelectSeq([k \in 1..(m * n) |-> k], ok)
    IN  [j \in 1..Len(picked) |-> Slot(lo(picked[j]), hi(picked[j]))]

(* Mutant: the intersection keeps the start of the range found so far.    *)
IntersectRangesKeepStart(common, slots, duration) ==
    LET m == Len(common)
        n == Len(slots)
        c(k) == common[((k - 1) \div n) + 1]
        s(k) == slots[((k - 1) % n) + 1]
        lo(k) == c(k).start_time
        hi(k) == Min(c(k).end_time, s(k).end_time)
        ok(k) == lo(k) < hi(k) /\ hi(k) - lo(k) >= duration
        picked == SelectSeq([k \in 1..(m * n) |-> k], ok)
    IN  [j \in 1..Len(picked) |-> Slot(lo(picked[j]), hi(picked[j]))]

(* Every (common, user slot) pair in the nested loops' order; the          *)
(* intersections that are non-empty and at least duration long.            *)
IntersectRanges(common, slots, duration) ==
    LET m == Len(common)
        n == Len(slots)
        c(k) == common[((k - 1) \div n) + 1]
        s(k) == slots[((k - 1) % n) + 1]
        lo(k) == Max(c(k).start_time, s(k).start_time)
        hi(k) == Min(c(k).end_time, s(k).end_time)
        ok(k) == lo(k) < hi(k) /\ hi(k) - lo(k) >= duration
        picked == SelectSeq([k \in 1..(m * n) |-> k], ok)
    IN  [j \in 1..Len(picked) |-> Slot(lo(picked[j]), hi(picked[j]))]

(* The closing loop: only ranges of at least the duration are returned.    *)
ConvertBack(ranges, duration) ==
    SelectSeq(ranges, LAMBDA r : r.end_time - r.start_time >= duration)

----------------------------------------------------------------------------
(* Constraints (scheduling_engine.py).  A constraint is a record of its    *)
(* class, its weight and its parameters; a score is the code's float times *)
(* ten.                                                                    *)

BusinessHoursConstraint(w) ==
    [kind |-> "BusinessHoursConstraint", weight |-> w, preference |-> "any",
     days |-> 0..4, preferred_start_date |-> 0, preferred_end_date |-> 0]
MinimumNoticeConstraint(w) ==
    [kind |-> "MinimumNoticeConstraint", weight |-> w, preference |-> "any",
     days |-> {}, preferred_start_date |-> 0, preferred_end_date |-> 0]
TimePreferenceConstraint(p, w) ==
    [kind |-> "TimePreferenceConstraint", weight |-> w, preference |-> p,
     days |-> {}, preferred_start_date |-> 0, preferred_end_date |-> 0]
DayAvoidanceConstraint(d, w) ==
    [kind |-> "DayAvoidanceConstraint", weight |-> w, preference |-> "any",
     days |-> d, preferred_start_date |-> 0, preferred_end_date |-> 0]
(* A date that is None. *)
NoDate == -1

DateRangeConstraintOf(earliest, latest, ps, pe, w) ==
    [kind |-> "DateRangeConstraint", weight |-> w, preference |-> "any",
     days |-> {}, preferred_start_date |-> ps, preferred_end_date |-> pe,
     earliest_date |-> earliest, latest_date |-> latest]
DateRangeConstraint(ps, pe, w) == DateRangeConstraintOf(NoDate, NoDate, ps, pe, w)

(* BusinessHoursConstraint.evaluate: start_hour 9, end_hour 17.            *)
BusinessHoursScore(c, t) ==
    IF Weekday(t) \notin c.days THEN 0
    ELSE IF Hour(t) < 9 \/ Hour(t) >= 17 THEN 0
    ELSE 10

(* MinimumNoticeConstraint.evaluate: minimum_hours 24.                     *)
MinimumNoticeScore(c, t, now) ==
    IF t - now < 24 * 60 THEN 0 ELSE 10

(* Mutant: the time of day makes no difference.                            *)
TimePreferenceScoreFlat(c, t) == 10

(* TimePreferenceConstraint.evaluate.                                      *)
TimePreferenceScore(c, t) ==
    LET h == Hour(t)
        p == c.preference
    IN  IF p = "any" THEN 10
        ELSE IF p = "morning" /\ 9 <= h /\ h < 12 THEN 10
        ELSE IF p = "afternoon" /\ 12 <= h /\ h < 17 THEN 10
        ELSE IF p = "evening" /\ 17 <= h /\ h < 20 THEN 10
        ELSE IF p = "morning" /\ 8 <= h /\ h < 9 THEN 8
        ELSE IF p = "morning" /\ 12 <= h /\ h < 13 THEN 6
        ELSE IF p = "afternoon" /\ 11 <= h /\ h < 12 THEN 8
        ELSE IF p = "afternoon" /\ 17 <= h /\ h < 18 THEN 6
        ELSE IF p = "evening" /\ 16 <= h /\ h < 17 THEN 8
        ELSE IF p = "evening" /\ 20 <= h /\ h < 21 THEN 6
        ELSE 3

(* DayAvoidanceConstraint.evaluate.                                        *)
DayAvoidanceScore(c, t) ==
    IF Weekday(t) \in c.days THEN 0 ELSE 10

(* timedelta.days of a difference that is not negative: the whole days.    *)
Days(minutes) == minutes \div MinutesPerDay

(* DateRangeConstraint.evaluate.                                           *)
DateRangeScore(c, t) ==
    IF c.earliest_date # NoDate /\ t < c.earliest_date THEN 0
    ELSE IF c.latest_date # NoDate /\ t > c.latest_date THEN 0
    ELSE IF c.preferred_start_date = NoDate \/ c.preferred_end_date = NoDate THEN 10
    ELSE IF c.preferred_start_date <= t /\ t <= c.preferred_end_date THEN 10
    ELSE IF t < c.preferred_start_date
    THEN Max(5, 10 - Days(c.preferred_start_date - t))
    ELSE IF t > c.preferred_end_date
    THEN Max(5, 10 - Days(t - c.preferred_end_date))
    ELSE 10

Evaluate(c, slot, now) ==
    CASE c.kind = "BusinessHoursConstraint" -> BusinessHoursScore(c, slot.start_time)
      [] c.kind = "MinimumNoticeConstraint" -> MinimumNoticeScore(c, slot.start_time, now)
      [] c.kind = "TimePreferenceConstraint" -> TimePreferenceScore(c, slot.start_time)
      [] c.kind = "DayAvoidanceConstraint" -> DayAvoidanceScore(c, slot.start_time)
      [] OTHER -> DateRangeScore(c, slot.start_time)

(* ConstraintBasedScheduler._create_default_constraints.                   *)
DefaultConstraints ==
    <<BusinessHoursConstraint(10), MinimumNoticeConstraint(9)>>

(* The preferences dictionary: a key that is absent is "absent" (time of   *)
(* day), FALSE (the avoid_* flags) or has_dates = FALSE.                   *)
NoPreferences ==
    [preferred_time_of_day |-> "absent", avoid_mondays |-> FALSE,
     avoid_fridays |-> FALSE, avoid_weekends |-> FALSE, has_dates |-> FALSE,
     preferred_start_date |-> 0, preferred_end_date |-> 0]

(* ConstraintBasedScheduler._prepare_constraints.                          *)
PrepareConstraints(constraints, prefs) ==
    LET days_to_avoid ==
            (IF prefs.avoid_mondays THEN {0} ELSE {})
            \cup (IF prefs.avoid_fridays THEN {4} ELSE {})
            \cup (IF prefs.avoid_weekends THEN {5, 6} ELSE {})
        time_part ==
            IF prefs.preferred_time_of_day # "absent"
            THEN <<TimePreferenceConstraint(prefs.preferred_time_of_day, 7)>>
            ELSE <<>>
        day_part ==
            IF days_to_avoid # {}
            THEN <<DayAvoidanceConstraint(days_to_avoid, 8)>>
            ELSE <<>>
        date_part ==
            IF prefs.has_dates
            THEN <<DateRangeConstraint(prefs.preferred_start_date,
                                       prefs.preferred_end_date, 6)>>
            ELSE <<>>
    IN  DefaultConstraints \o constraints \o time_part \o day_part \o date_part

RECURSIVE SumSeq(_)
SumSeq(s) == IF s = <<>> THEN 0 ELSE s[1] + SumSeq(Tail(s))

(* Mutant: the plain mean of the scores, weights ignored.                  *)
ScoreOfUnweighted(slot, constraints, now) ==
    IF constraints = <<>> THEN [num |-> 1, den |-> 1]
    ELSE [num |-> SumSeq([k \in 1..Len(constraints) |->
                             Evaluate(constraints[k], slot, now)]),
          den |-> 10 * Len(constraints)]

(* Mutant: a slot that scores 0 on a constraint scores 0 overall.           *)
ScoreOfVeto(slot, constraints, now) ==
    IF \E k \in DOMAIN constraints : Evaluate(constraints[k], slot, now) = 0
    THEN [num |-> 0, den |-> 1]
    ELSE [num |-> SumSeq([k \in 1..Len(constraints) |->
                             Evaluate(constraints[k], slot, now) * constraints[k].weight]),
          den |-> 10 * SumSeq([k \in 1..Len(constraints) |-> constraints[k].weight])]

(* ConstraintBasedScheduler._score_slots: the normalized score is the      *)
(* fraction num / den (1/1 when the total weight is 0).                    *)
ScoreOf(slot, constraints, now) ==
    LET total_weight == SumSeq([k \in 1..Len(constraints) |-> constraints[k].weight])
        weighted_score ==
            SumSeq([k \in 1..Len(constraints) |->
                        Evaluate(constraints[k], slot, now) * constraints[k].weight])
    IN  IF total_weight > 0
        THEN [num |-> weighted_score, den |-> 10 * total_weight]
        ELSE [num |-> 1, den |-> 1]

ScoreSlots(slots, constraints, now) ==
    [k \in 1..Len(slots) |->
        [start_time |-> slots[k].start_time,
         end_time |-> slots[k].end_time,
         duration_minutes |-> slots[k].duration_minutes,
         score |-> ScoreOf(slots[k], constraints, now)]]

ScoreGE(a, b) == a.num * b.den >= b.num * a.den
ScoreGT(a, b) == a.num * b.den > b.num * a.den
ScoreEQ(a, b) == a.num * b.den = b.num * a.den

(* Mutant: slots of equal score come out in the reverse of their order.    *)
RECURSIVE SortedByScoreTiesReversed(_)
SortedByScoreTiesReversed(s) ==
    IF s = <<>> THEN <<>>
    ELSE LET rest == SortedByScoreTiesReversed(SubSeq(s, 1, Len(s) - 1))
             x == s[Len(s)]
             k == Cardinality({j \in 1..Len(rest) : ScoreGT(rest[j].score, x.score)})
         IN  SubSeq(rest, 1, k) \o <<x>> \o SubSeq(rest, k + 1, Len(rest))

(* sorted(scored_slots, key=lambda x: x['score'], reverse=True): a stable  *)
(* sort, slots of equal score keep the order they came in.                 *)
RECURSIVE SortedByScore(_)
SortedByScore(s) ==
    IF s = <<>> THEN <<>>
    ELSE LET rest == SortedByScore(SubSeq(s, 1, Len(s) - 1))
             x == s[Len(s)]
             k == Cardinality({j \in 1..Len(rest) : ScoreGE(rest[j].score, x.score)})
         IN  SubSeq(rest, 1, k) \o <<x>> \o SubSeq(rest, k + 1, Len(rest))

(* ...[:max_slots]                                                         *)
Truncate(s, n) == SubSeq(s, 1, Min(n, Len(s)))

(* ConstraintBasedScheduler.find_available_slots, after the aggregator.    *)
RankSlots(slots, constraints, prefs, now, n) ==
    Truncate(SortedByScore(ScoreSlots(slots, PrepareConstraints(constraints, prefs), now)), n)

----------------------------------------------------------------------------
(* A find_available_slots request against CalendarService, stepped one     *)
(* participant at a time.                                                  *)

(* What a user's provider can hold and answer.  provider "none": no        *)
(* provider is set for the user, so _get_integration raises.  fails: the   *)
(* provider call raises inside the adapter.                                *)
Calendar(p, f, b, v) == [provider |-> p, fails |-> f, busy |-> b, view |-> v]

Monday9 == 9 * 60

CalendarPool ==
    {Calendar("google", FALSE, b, <<>>) :
        b \in {{}, {<<Monday9, Monday9 + 30>>}, {<<Monday9 + 15, Monday9 + 45>>},
               {<<Monday9 + 30, Monday9 + 60>>}}}
    \cup {Calendar("google", TRUE, {<<Monday9, Monday9 + 30>>}, <<>>)}
    \cup {Calendar("microsoft", FALSE, {}, v) :
            v \in {<<"0">>, <<"0", "0">>, <<"2", "0">>, <<"0", "0", "0">>}}
    \cup {Calendar("microsoft", TRUE, {}, <<"2", "0">>)}
    \cup {Calendar("none", FALSE, {}, <<>>)}

WindowPool ==
    {<<Monday9, Monday9 + 30>>, <<Monday9, Monday9 + 45>>,
     <<Monday9, Monday9 + 60>>, <<Monday9 + 15, Monday9 + 60>>}

DurationPool == {15, 30, 60}

(* The day of the worked example: A busy 10:00-11:00, B busy 14:00-15:00,  *)
(* both on Google, the window 09:00-17:00, 60 minutes.                     *)
ExampleCalendars ==
    <<Calendar("google", FALSE, {<<10 * 60, 11 * 60>>}, <<>>),
      Calendar("google", FALSE, {<<14 * 60, 15 * 60>>}, <<>>)>>

(* No InterviewScheduler operation is part of the request.                 *)
SchedulerUnused ==
    /\ communication_service = FALSE
    /\ sched = <<>>
    /\ calls = <<>>
    /\ returned = <<>>

ServiceUnused ==
    /\ tokens = <<>>
    /\ available_slots = <<>>
    /\ proc = <<>>
    /\ issues_left = 0
    /\ finds_left = 0
    /\ interviews = <<>>
    /\ served = <<>>
    /\ consumed = {}

FindStart(users, cals, st, en, dur, n, prefs, now) ==
    /\ user_ids = users
    /\ calendars = cals
    /\ start_time = st
    /\ end_time = en
    /\ duration_minutes = dur
    /\ max_slots = n
    /\ preferences = prefs
    /\ request_constraints = <<>>
    /\ clock = now
    /\ pc = IF users = <<>> THEN "fold" ELSE "fetch"
    /\ idx = 1
    /\ all_availability = <<>>
    /\ potential_common = <<>>
    /\ visited = {}
    /\ common_slots = <<>>
    /\ evaluated = 0
    /\ ranked_slots = <<>>
    /\ ServiceUnused
    /\ SchedulerUnused

FindInit ==
    \/ \E n \in 0..MaxUsers :
       \E cals \in [1..n -> CalendarPool] :
       \E w \in WindowPool :
       \E dur \in DurationPool :
          FindStart([k \in 1..n |-> k], cals, w[1], w[2], dur,
                    DefaultMaxSlots, NoPreferences, 0)
    \/ FindStart(<<1, 2>>, ExampleCalendars, 9 * 60, 17 * 60, 60,
                 DefaultMaxSlots, NoPreferences, 0)

requestVars == <<user_ids, start_time, end_time, duration_minutes, max_slots,
                 preferences, request_constraints, clock, calendars, serviceVars,
                 schedulerVars>>

(* CalendarService.get_common_availability, the body of the fetch loop.    *)
(* An exception of get_availability (no provider set) returns [] at once;  *)
(* an adapter that failed has answered [] and the loop goes on.            *)
FetchAvailability ==
    /\ pc = "fetch"
    /\ idx <= Len(user_ids)
    /\ LET cal == calendars[user_ids[idx]]
       IN  IF cal.provider = "none"
           THEN /\ common_slots' = <<>>
                /\ pc' = "rank"
                /\ UNCHANGED <<idx, all_availability>>
           ELSE /\ all_availability' =
                       Append(all_availability,
                              AdapterAvailability(cal, start_time, end_time))
                /\ idx' = idx + 1
                /\ pc' = IF idx = Len(user_ids) THEN "fold" ELSE "fetch"
                /\ UNCHANGED common_slots
    /\ UNCHANGED <<requestVars, potential_common, visited, evaluated, ranked_slots>>

(* _find_common_slots up to the fold: nothing to fold returns [], else the *)
(* first user's ranges are the potential common ranges.                    *)
StartFold ==
    /\ pc = "fold"
    /\ IF all_availability = <<>>
       THEN /\ common_slots' = <<>>
            /\ pc' = "rank"
            /\ UNCHANGED <<potential_common, idx>>
       ELSE /\ potential_common' = all_availability[1]
            /\ idx' = 2
            /\ pc' = "intersect"
            /\ UNCHANGED common_slots
    /\ UNCHANGED <<requestVars, all_availability, visited, evaluated, ranked_slots>>

(* Mutant: the fold has no early exit.                                     *)
NoEarlyExit(new_common) == FALSE

(* "if not potential_common: return []"                                    *)
EarlyExit(new_common) == new_common = <<>>

(* One iteration of "for user_id in list(user_ranges.keys())[1:]".         *)
IntersectUser ==
    /\ pc = "intersect"
    /\ idx <= Len(all_availability)
    /\ LET new_common == IntersectRanges(potential_common, all_availability[idx],
                                         duration_minutes)
       IN  /\ potential_common' = new_common
           /\ visited' = visited \cup {idx}
           /\ IF EarlyExit(new_common)
              THEN /\ common_slots' = <<>>
                   /\ pc' = "rank"
                   /\ UNCHANGED idx
              ELSE /\ idx' = idx + 1
                   /\ UNCHANGED <<common_slots, pc>>
    /\ UNCHANGED <<requestVars, all_availability, evaluated, ranked_slots>>

(* The end of _find_common_slots.                                          *)
ReturnCommon ==
    /\ pc = "intersect"
    /\ idx > Len(all_availability)
    /\ common_slots' = ConvertBack(potential_common, duration_minutes)
    /\ pc' = "rank"
    /\ UNCHANGED <<requestVars, idx, all_availability, potential_common, visited,
                   evaluated, ranked_slots>>

(* ConstraintBasedScheduler.find_available_slots from "if not              *)
(* common_slots" on.                                                       *)
RankCommon ==
    /\ pc = "rank"
    /\ IF common_slots = <<>>
       THEN /\ ranked_slots' = <<>>
            /\ UNCHANGED evaluated
       ELSE /\ ranked_slots' = RankSlots(common_slots, request_constraints, preferences,
                                         clock, max_slots)
            /\ evaluated' = Len(common_slots)
                              * Len(PrepareConstraints(request_constraints, preferences))
    /\ pc' = "done"
    /\ UNCHANGED <<requestVars, idx, all_availability, potential_common, visited,
                   common_slots>>

FindNext ==
    \/ FetchAvailability
    \/ StartFold
    \/ IntersectUser
    \/ ReturnCommon
    \/ RankCommon

FindSpec == FindInit /\ [][FindNext]_vars

----------------------------------------------------------------------------
(* _find_common_slots and the ranking on availability lists given as they  *)
(* are, whatever integration produced them (register_integration takes any *)
(* CalendarIntegrationService).                                            *)

MaxFoldUsers == 3

Tuesday == MinutesPerDay

Mon16 == Slot(16 * 60, 17 * 60)
Tue9 == Slot(Tuesday + 9 * 60, Tuesday + 10 * 60)
Tue930 == Slot(Tuesday + 9 * 60 + 30, Tuesday + 10 * 60 + 30)
Tue930Half == Slot(Tuesday + 9 * 60 + 30, Tuesday + 10 * 60)
Tue18 == Slot(Tuesday + 18 * 60, Tuesday + 19 * 60)
MonTue == Slot(9 * 60, Tuesday + 19 * 60)

ListPool ==
    {<<>>, <<Mon16>>, <<Tue9>>, <<Tue930Half>>, <<MonTue>>,
     <<Mon16, Tue9>>, <<Tue9, Mon16>>, <<Tue9, Tue930>>, <<Tue930, Tue9>>,
     <<Tue18, Tue9>>, <<Tue18, Tue9, Tue930>>}

FoldInit ==
    \E n \in 1..MaxFoldUsers :
    \E lists \in [1..n -> ListPool] :
    \E dur \in {30, 60} :
    \E m \in {1, DefaultMaxSlots} :
       /\ user_ids = [k \in 1..n |-> k]
       /\ calendars = <<>>
       /\ start_time = 9 * 60
       /\ end_time = Tuesday + 19 * 60
       /\ duration_minutes = dur
       /\ max_slots = m
       /\ preferences = NoPreferences
       /\ request_constraints = <<>>
       /\ clock = 0
       /\ pc = "fold"
       /\ idx = 1
       /\ all_availability = lists
       /\ potential_common = <<>>
       /\ visited = {}
       /\ common_slots = <<>>
       /\ evaluated = 0
       /\ ranked_slots = <<>>
       /\ ServiceUnused
       /\ SchedulerUnused

FoldNext ==
    \/ StartFold
    \/ IntersectUser
    \/ ReturnCommon
    \/ RankCommon

FoldSpec == FoldInit /\ [][FoldNext]_vars

----------------------------------------------------------------------------
(* Properties of the aggregator and the ranking.                           *)

Returned == pc = "done"
AggregatorReturned == pc \in {"rank", "done"}

(* Two half-open ranges share an instant. *)
ShareAnInstant(s, e, b) == Max(s, b[1]) < Min(e, b[2])

TimeRange(slot) == <<slot.start_time, slot.end_time>>

(* C3: no slot get_common_availability returns overlaps a busy interval of *)
(* any requested participant, a participant whose fetch failed included.   *)
C3_NoBusyOverlap ==
    AggregatorReturned =>
        \A k \in 1..Len(common_slots) :
        \A u \in Range(user_ids) :
        \A b \in BusyOf(calendars[u], start_time) :
            ~ShareAnInstant(common_slots[k].start_time, common_slots[k].end_time, b)

C3_Witness ==
    /\ Returned
    /\ common_slots # <<>>
    /\ Len(user_ids) >= 2
    /\ \A u \in Range(user_ids) : BusyOf(calendars[u], start_time) # {}

(* C4: every slot find_available_slots returns lies inside the requested   *)
(* range and is at least duration_minutes long.                            *)
C4_SlotsInsideRange ==
    Returned =>
        \A k \in 1..Len(ranked_slots) :
            /\ start_time <= ranked_slots[k].start_time
            /\ ranked_slots[k].end_time <= end_time
            /\ ranked_slots[k].end_time - ranked_slots[k].start_time
                  >= duration_minutes

(* C5: in the worked example (A busy 10-11, B busy 14-15, 60 minutes,      *)
(* 09:00-17:00) the result is the six hour-aligned hours other than        *)
(* [10,11) and [14,15).                                                    *)
IsExample ==
    /\ calendars = ExampleCalendars
    /\ start_time = 9 * 60
    /\ end_time = 17 * 60
    /\ duration_minutes = 60

C5_ExampleSlots ==
    (Returned /\ IsExample) =>
        /\ Len(ranked_slots) = 6
        /\ {TimeRange(ranked_slots[k]) : k \in 1..Len(ranked_slots)}
             = {<<60 * h, 60 * (h + 1)>> : h \in {9, 11, 12, 13, 15, 16}}

(* A fetch that was attempted failed: the loop reaches a user only when    *)
(* every user before has a provider.                                       *)
FetchFailed ==
    \E k \in 1..Len(user_ids) :
        /\ \A j \in 1..(k - 1) : calendars[user_ids[j]].provider # "none"
        /\ \/ calendars[user_ids[k]].provider = "none"
           \/ calendars[user_ids[k]].fails

(* C6 as stated: a failed fetch makes the request end in an error.         *)
C6_FailureRaises ==
    (pc \in {"done", "raised"} /\ FetchFailed) => pc = "raised"

(* C6 as amended: a failed fetch makes the request return the empty list,  *)
(* the value it also returns for no common availability.                   *)
C6_FailureReturnsEmpty ==
    (Returned /\ FetchFailed) => ranked_slots = <<>>

C6_Witness ==
    /\ Returned
    /\ FetchFailed
    /\ duration_minutes <= SlotDuration
    /\ \E u \in Range(user_ids) :
          /\ calendars[u].provider # "none"
          /\ AdapterAvailability(calendars[u], start_time, end_time) # <<>>

(* The intersection of the first k lists, folded without any exit.         *)
RECURSIVE FoldPrefix(_)
FoldPrefix(k) ==
    IF k = 1 THEN all_availability[1]
    ELSE IntersectRanges(FoldPrefix(k - 1), all_availability[k], duration_minutes)

Eliminators == {k \in 1..Len(all_availability) : FoldPrefix(k) = <<>>}
FirstEliminator == CHOOSE k \in Eliminators : \A j \in Eliminators : k <= j

(* C7: once a participant has emptied the candidates no fold iteration of  *)
(* a later participant is entered (a first participant with no range lets  *)
(* the second one's iteration start, which compares nothing), the request  *)
(* returns the empty list and evaluates no constraint.                     *)
C7_EarlyExit ==
    (Returned /\ Eliminators # {}) =>
        /\ visited \subseteq 2..Max(FirstEliminator, 2)
        /\ common_slots = <<>>
        /\ ranked_slots = <<>>
        /\ evaluated = 0

C7_Witness ==
    /\ Returned
    /\ Len(all_availability) >= 3
    /\ Eliminators # {}
    /\ FirstEliminator = 2
    /\ all_availability[3] # <<>>

IsAscendingDisjoint(list) ==
    \A i, j \in 1..Len(list) : i < j => list[i].end_time <= list[j].start_time

(* C8 as stated: the aggregator's list is in ascending start order and     *)
(* holds no time range twice, whatever the lists.                          *)
C8_AscendingNoDuplicates ==
    AggregatorReturned =>
        \A i, j \in 1..Len(common_slots) :
            i < j => /\ common_slots[i].start_time <= common_slots[j].start_time
                     /\ TimeRange(common_slots[i]) # TimeRange(common_slots[j])

(* C8 as amended: it is so when every participant's list is ascending with *)
(* no two ranges overlapping, as the adapters build them.                  *)
C8_AscendingWhenInputsAre ==
    (AggregatorReturned
       /\ \A u \in 1..Len(all_availability) : IsAscendingDisjoint(all_availability[u]))
    => \A i, j \in 1..Len(common_slots) :
            i < j => common_slots[i].start_time < common_slots[j].start_time

C8_Witness ==
    /\ Returned
    /\ Len(all_availability) >= 2
    /\ \A u \in 1..Len(all_availability) :
          /\ IsAscendingDisjoint(all_availability[u])
          /\ Len(all_availability[u]) >= 2
    /\ Len(common_slots) >= 2

(* The constraints of the request.                                         *)
RequestConstraints == PrepareConstraints(request_constraints, preferences)

(* C9 as stated: adjacent returned slots are in descending score, equal    *)
(* scores by earlier start, whatever order the aggregator delivered.       *)
C9_TiesByEarlierStart ==
    Returned =>
        \A k \in 1..(Len(ranked_slots) - 1) :
            \/ ScoreGT(ranked_slots[k].score, ranked_slots[k + 1].score)
            \/ /\ ScoreEQ(ranked_slots[k].score, ranked_slots[k + 1].score)
               /\ ranked_slots[k].start_time <= ranked_slots[k + 1].start_time

(* The slots of a list whose score equals sc, in the list's order.         *)
WithScore(list, sc) == SelectSeq(list, LAMBDA x : ScoreEQ(x.score, sc))
IsPrefix(a, b) == Len(a) <= Len(b) /\ a = SubSeq(b, 1, Len(a))

(* C9 as amended: the result is the first max_slots of the scored slots in *)
(* descending score, equal scores in the order the aggregator delivered    *)
(* them; that is earlier start first when it delivered in ascending start. *)
C9_TiesInDeliveredOrder ==
    (Returned /\ common_slots # <<>>) =>
        LET scored == ScoreSlots(common_slots, RequestConstraints, clock)
        IN  /\ Len(ranked_slots) = Min(max_slots, Len(common_slots))
            /\ \A k \in 1..(Len(ranked_slots) - 1) :
                  ScoreGE(ranked_slots[k].score, ranked_slots[k + 1].score)
            /\ \A k \in 1..Len(ranked_slots) :
                  IsPrefix(WithScore(ranked_slots, ranked_slots[k].score),
                           WithScore(scored, ranked_slots[k].score))
            /\ \A k \in 1..Len(scored) :
                  (\E j \in 1..Len(scored) :
                       /\ ScoreGT(scored[j].score, scored[k].score)
                       /\ scored[j] \notin Range(ranked_slots))
                  => scored[k] \notin Range(ranked_slots)
            /\ (\A i, j \in 1..Len(common_slots) :
                   i < j => common_slots[i].start_time <= common_slots[j].start_time)
               => C9_TiesByEarlierStart

C9_Witness ==
    /\ Returned
    /\ Len(ranked_slots) >= 3
    /\ ranked_slots[1].start_time # common_slots[1].start_time
    /\ \E k \in 1..(Len(ranked_slots) - 1) :
          /\ ScoreEQ(ranked_slots[k].score, ranked_slots[k + 1].score)
          /\ ranked_slots[k].start_time < ranked_slots[k + 1].start_time

----------------------------------------------------------------------------
(* CandidateSchedulingService (scheduling_engine.py).  The calendar and    *)
(* communication services are the objects handed to the constructor; what  *)
(* they answer is drawn here from small pools.  The clock counts minutes,  *)
(* and two calls within one value of the clock read the same               *)
(* int(datetime.now().timestamp()).                                        *)

MaxClock == 1
MaxIssues == 2
MaxFinds == 2

Put(d, k, v) == [x \in DOMAIN d \cup {k} |-> IF x = k THEN v ELSE d[x]]
(* Mutant: del leaves the entry in place.                                  *)
DelKeeps(d, k) == d

Del(d, k) == [x \in DOMAIN d \ {k} |-> d[x]]

Timestamp(t) == 60 * t

(* random.randint(100000, 999999) and random.randint(1000, 9999).          *)
TokenRandomPool == {100000, 100001}
SlotRandomPool == {1000, 1001}
InterviewRandomPool == {1000}

(* _generate_token, _generate_slot_id, _generate_interview_id.             *)
GenerateToken(now, r) == <<"token", Timestamp(now), r>>
GenerateSlotId(now, r) == <<"slot", Timestamp(now), r>>
GenerateInterviewId(now, r) == <<"interview", Timestamp(now), r>>

(* A token and a slot id the service never generates.                      *)
UnknownToken == <<"token", 0, 0>>
UnknownSlotId == <<"slot", 0, 0>>

CandidatePool == {"candidate_1", "candidate_2"}

(* The expiration a caller hands to generate_scheduling_token: the instant *)
(* of construction, or two days after it.                                  *)
ExpirationPool == {0, 60 * 48}
JobPool == {"job_1"}

(* get_available_slots' simulated job data.                                *)
InterviewerIds == <<"interviewer_11111", "interviewer_22222">>
InterviewDuration == 60

(* What the injected calendar service's get_common_availability answers.   *)
CommonPool == {<<>>, <<Tue18, Tue9>>}

NoData == [candidate_id |-> "", job_id |-> "", expiration |-> -1]
NoSlot ==
    [start_time |-> 0, end_time |-> 0, duration_minutes |-> 0,
     score |-> [num |-> 0, den |-> 1], job_id |-> "", candidate_id |-> "",
     interviewer_ids |-> <<>>, slot_id |-> <<>>]
Idle ==
    [op |-> "none", at |-> "idle", token |-> <<>>, slot_id |-> <<>>,
     token_data |-> NoData, slots |-> <<>>, selected_slot |-> NoSlot,
     result |-> "none", late |-> FALSE, valid |-> FALSE]

(* InterviewScheduler.find_available_slots: rank what the calendar service *)
(* answered and tag each slot, ids[k] being the k-th generated slot id.    *)
EnrichSlots(ranked, job_id, candidate_id, interviewer_ids, ids) ==
    [k \in 1..Len(ranked) |->
        [start_time |-> ranked[k].start_time,
         end_time |-> ranked[k].end_time,
         duration_minutes |-> ranked[k].duration_minutes,
         score |-> ranked[k].score,
         job_id |-> job_id,
         candidate_id |-> candidate_id,
         interviewer_ids |-> interviewer_ids,
         slot_id |-> ids[k]]]

FindAvailableSlots(common, now) ==
    IF common = <<>> THEN <<>>
    ELSE RankSlots(common, <<>>, NoPreferences, now, DefaultMaxSlots)

(* InterviewScheduler.schedule_interview: the record it returns; events    *)
(* maps the participants whose create_event returned to what it returned.  *)
ScheduleInterview(id, job_id, candidate_id, interviewer_ids, st, en, events) ==
    [id |-> id, job_id |-> job_id, candidate_id |-> candidate_id,
     interviewer_ids |-> interviewer_ids, start_time |-> st, end_time |-> en,
     status |-> "scheduled", events |-> events]

(* The event the calendar service returns for a user. *)
EventFor(u) == [id |-> <<"event", u>>]

(* The participants whose create_event returns; the others' raises.        *)
CreatedPool(interviewer_ids, candidate_id) ==
    {Range(interviewer_ids) \cup {candidate_id}, {}}

(* Mutant: an id that matches no slot selects the first slot of the list.  *)
SelectSlotOrFirst(slots, slot_id) ==
    LET hits == {k \in 1..Len(slots) : slots[k].slot_id = slot_id}
    IN  IF slots = <<>> THEN NoSlot
        ELSE IF hits = {} THEN slots[1]
        ELSE slots[CHOOSE k \in hits : \A j \in hits : k <= j]

(* The first slot of the list with the id, as the lookup loop finds it.    *)
SelectSlot(slots, slot_id) ==
    LET hits == {k \in 1..Len(slots) : slots[k].slot_id = slot_id}
    IN  IF hits = {} THEN NoSlot
        ELSE slots[CHOOSE k \in hits : \A j \in hits : k <= j]

Callers == DOMAIN proc

(* What a caller can pass: a token it was handed at some time, a slot id   *)
(* it was shown for that token, or something made up.                      *)
TokenPool == DOMAIN tokens \cup consumed \cup {UnknownToken}
SlotIdPool(token) ==
    (IF token \in DOMAIN served THEN served[token] ELSE {}) \cup {UnknownSlotId}

(* The call returns res, or raises it. *)
Return(p, res) ==
    [proc EXCEPT ![p] = [@ EXCEPT !.at = "done", !.result = res]]

Goto(p, where) == [proc EXCEPT ![p].at = where]

(* The variables of a find_available_slots request, which the token        *)
(* service's specifications leave alone.                                   *)
PipelineUnused ==
    /\ request_constraints = <<>>
    /\ user_ids = <<>>
    /\ calendars = <<>>
    /\ start_time = 0
    /\ end_time = 0
    /\ duration_minutes = InterviewDuration
    /\ max_slots = DefaultMaxSlots
    /\ preferences = NoPreferences
    /\ pc = "unused"
    /\ idx = 1
    /\ all_availability = <<>>
    /\ potential_common = <<>>
    /\ visited = {}
    /\ common_slots = <<>>
    /\ evaluated = 0
    /\ ranked_slots = <<>>

pipelineVars == <<user_ids, start_time, end_time, duration_minutes, max_slots,
                  preferences, request_constraints, schedulerVars, calendars, pc, idx, all_availability,
                  potential_common, visited, common_slots, evaluated, ranked_slots>>

(* Time passes. *)
Tick ==
    /\ clock < MaxClock
    /\ clock' = clock + 1
    /\ UNCHANGED <<pipelineVars, serviceVars>>

(* generate_scheduling_token: one write of self.tokens.                    *)
GenerateSchedulingToken(p) ==
    /\ proc[p].at = "idle"
    /\ issues_left > 0
    /\ \E candidate_id \in CandidatePool, job_id \in JobPool,
          expiration \in ExpirationPool, r \in TokenRandomPool :
          LET token == GenerateToken(clock, r)
          IN  /\ tokens' = Put(tokens, token,
                               [candidate_id |-> candidate_id, job_id |-> job_id,
                                expiration |-> expiration])
              /\ proc' = [proc EXCEPT ![p] =
                            [Idle EXCEPT !.op = "issue", !.at = "done",
                                         !.token = token, !.result = "ok"]]
    /\ issues_left' = issues_left - 1
    /\ UNCHANGED <<pipelineVars, clock, available_slots, finds_left, interviews,
                   served, consumed>>

(* "datetime.now(expiration.tzinfo) > expiration"                          *)
IsExpired(now, expiration) == now > expiration

(* validate_token would accept the token at this instant.                  *)
IsValidNow(token) ==
    /\ token \in DOMAIN tokens
    /\ ~IsExpired(clock, tokens[token].expiration)

(* A caller enters get_available_slots(token).                             *)
CallGetAvailableSlots(p) ==
    /\ proc[p].at = "idle"
    /\ finds_left > 0
    /\ \E token \in TokenPool :
          proc' = [proc EXCEPT ![p] =
                      [Idle EXCEPT !.op = "get", !.at = "validate", !.token = token,
                                   !.late = token \in consumed,
                                   !.valid = IsValidNow(token)]]
    /\ finds_left' = finds_left - 1
    /\ UNCHANGED <<pipelineVars, clock, tokens, available_slots, issues_left,
                   interviews, served, consumed>>

(* A caller enters confirm_slot(token, slot_id).                           *)
CallConfirmSlot(p) ==
    /\ proc[p].at = "idle"
    /\ \E token \in TokenPool : \E slot_id \in SlotIdPool(token) :
          proc' = [proc EXCEPT ![p] =
                      [Idle EXCEPT !.op = "confirm", !.at = "validate",
                                   !.token = token, !.slot_id = slot_id,
                                   !.late = token \in consumed,
                                   !.valid = IsValidNow(token)]]
    /\ UNCHANGED <<pipelineVars, clock, tokens, available_slots, issues_left,
                   finds_left, interviews, served, consumed>>

(* validate_token: "if token not in self.tokens".                          *)
CheckTokenExists(p) ==
    /\ proc[p].at = "validate"
    /\ proc' = IF proc[p].token \notin DOMAIN tokens
               THEN Return(p, "Invalid token")
               ELSE Goto(p, "read_token")
    /\ UNCHANGED <<pipelineVars, clock, tokens, available_slots, issues_left,
                   finds_left, interviews, served, consumed>>

(* validate_token: read self.tokens[token] and check the expiration.       *)
ReadToken(p) ==
    /\ proc[p].at = "read_token"
    /\ proc' =
         IF proc[p].token \notin DOMAIN tokens
         THEN Return(p, "KeyError")
         ELSE IF IsExpired(clock, tokens[proc[p].token].expiration)
         THEN Return(p, "Token expired")
         ELSE [proc EXCEPT ![p] =
                  [@ EXCEPT !.token_data = tokens[proc[p].token],
                            !.at = IF proc[p].op = "get" THEN "find"
                                   ELSE "check_slots"]]
    /\ UNCHANGED <<pipelineVars, clock, tokens, available_slots, issues_left,
                   finds_left, interviews, served, consumed>>

(* get_available_slots: the call of interview_scheduler.find_available_slots. *)
FindSlotsForToken(p) ==
    /\ proc[p].at = "find"
    /\ \E common \in CommonPool :
          LET ranked == FindAvailableSlots(common, clock)
          IN  \E rs \in [1..Len(ranked) -> SlotRandomPool] :
                 proc' = [proc EXCEPT ![p] =
                    [@ EXCEPT !.slots =
                           EnrichSlots(ranked, proc[p].token_data.job_id,
                                       proc[p].token_data.candidate_id,
                                       InterviewerIds,
                                       [k \in 1..Len(ranked) |->
                                           GenerateSlotId(clock, rs[k])]),
                              !.at = "store"]]
    /\ UNCHANGED <<pipelineVars, clock, tokens, available_slots, issues_left,
                   finds_left, interviews, served, consumed>>

(* get_available_slots: "self.available_slots[token] = available_slots".   *)
StoreSlots(p) ==
    /\ proc[p].at = "store"
    /\ available_slots' = Put(available_slots, proc[p].token, proc[p].slots)
    /\ served' = Put(served, proc[p].token,
                     (IF proc[p].token \in DOMAIN served
                      THEN served[proc[p].token] ELSE {})
                     \cup {proc[p].slots[k].slot_id : k \in 1..Len(proc[p].slots)})
    /\ proc' = Return(p, "ok")
    /\ UNCHANGED <<pipelineVars, clock, tokens, issues_left, finds_left,
                   interviews, consumed>>

(* confirm_slot: "if token not in self.available_slots".                   *)
CheckSlotsStored(p) ==
    /\ proc[p].at = "check_slots"
    /\ proc' = IF proc[p].token \notin DOMAIN available_slots
               THEN Return(p, "No available slots for this token")
               ELSE Goto(p, "find_slot")
    /\ UNCHANGED <<pipelineVars, clock, tokens, available_slots, issues_left,
                   finds_left, interviews, served, consumed>>

(* confirm_slot: the lookup loop over self.available_slots[token].         *)
FindSelectedSlot(p) ==
    /\ proc[p].at = "find_slot"
    /\ proc' =
         IF proc[p].token \notin DOMAIN available_slots
         THEN Return(p, "KeyError")
         ELSE LET selected == SelectSlot(available_slots[proc[p].token],
                                         proc[p].slot_id)
              IN  IF selected = NoSlot
                  THEN Return(p, "Invalid slot ID")
                  ELSE [proc EXCEPT ![p] =
                           [@ EXCEPT !.selected_slot = selected, !.at = "schedule"]]
    /\ UNCHANGED <<pipelineVars, clock, tokens, available_slots, issues_left,
                   finds_left, interviews, served, consumed>>

(* confirm_slot: the call of interview_scheduler.schedule_interview, which *)
(* touches the calendar and communication services only.                   *)
ScheduleSelected(p) ==
    /\ proc[p].at = "schedule"
    /\ LET slot == proc[p].selected_slot
           data == proc[p].token_data
       IN  \E created \in CreatedPool(slot.interviewer_ids, data.candidate_id),
              r \in InterviewRandomPool :
              LET interview ==
                      ScheduleInterview(GenerateInterviewId(clock, r), data.job_id,
                                        data.candidate_id, slot.interviewer_ids,
                                        slot.start_time, slot.end_time,
                                        [u \in created |-> EventFor(u)])
              IN  /\ interviews' = Append(interviews,
                                          [token |-> proc[p].token,
                                           caller |-> p,
                                           interview |-> interview])
                  /\ proc' = Goto(p, "del_slots")
    /\ UNCHANGED <<pipelineVars, clock, tokens, available_slots, issues_left,
                   finds_left, served, consumed>>

(* confirm_slot: "del self.available_slots[token]".                        *)
DeleteSlots(p) ==
    /\ proc[p].at = "del_slots"
    /\ IF proc[p].token \notin DOMAIN available_slots
       THEN /\ proc' = Return(p, "KeyError")
            /\ UNCHANGED available_slots
       ELSE /\ available_slots' = Del(available_slots, proc[p].token)
            /\ proc' = Goto(p, "del_token")
    /\ UNCHANGED <<pipelineVars, clock, tokens, issues_left, finds_left,
                   interviews, served, consumed>>

(* confirm_slot: "del self.tokens[token]" and the return of the interview. *)
DeleteToken(p) ==
    /\ proc[p].at = "del_token"
    /\ IF proc[p].token \notin DOMAIN tokens
       THEN /\ proc' = Return(p, "KeyError")
            /\ UNCHANGED <<tokens, consumed>>
       ELSE /\ tokens' = Del(tokens, proc[p].token)
            /\ consumed' = consumed \cup {proc[p].token}
            /\ proc' = Return(p, "ok")
    /\ UNCHANGED <<pipelineVars, clock, available_slots, issues_left, finds_left,
                   interviews, served>>

(* The caller has the outcome of its call and is free to call again.       *)
Resume(p) ==
    /\ proc[p].at = "done"
    /\ proc' = [proc EXCEPT ![p] = Idle]
    /\ UNCHANGED <<pipelineVars, clock, tokens, available_slots, issues_left,
                   finds_left, interviews, served, consumed>>

(* The steps of get_available_slots and confirm_slot. *)
Serve ==
    \/ \E p \in Callers : Resume(p)
    \/ \E p \in Callers : CallGetAvailableSlots(p)
    \/ \E p \in Callers : CallConfirmSlot(p)
    \/ \E p \in Callers : CheckTokenExists(p)
    \/ \E p \in Callers : ReadToken(p)
    \/ \E p \in Callers : FindSlotsForToken(p)
    \/ \E p \in Callers : StoreSlots(p)
    \/ \E p \in Callers : CheckSlotsStored(p)
    \/ \E p \in Callers : FindSelectedSlot(p)
    \/ \E p \in Callers : ScheduleSelected(p)
    \/ \E p \in Callers : DeleteSlots(p)
    \/ \E p \in Callers : DeleteToken(p)

Next ==
    \/ Tick
    \/ \E p \in Callers : GenerateSchedulingToken(p)
    \/ Serve

(* CandidateSchedulingService.__init__, and one caller: the calls follow   *)
(* one another.                                                            *)
Init ==
    /\ tokens = <<>>
    /\ available_slots = <<>>
    /\ proc = [p \in {1} |-> Idle]
    /\ issues_left = MaxIssues
    /\ finds_left = MaxFinds
    /\ interviews = <<>>
    /\ served = <<>>
    /\ consumed = {}
    /\ clock = 0
    /\ PipelineUnused
    /\ SchedulerUnused

Spec == Init /\ [][Next]_vars

(* Two callers and the token of generate_scheduling_token("candidate_1",   *)
(* "job_1"): their calls interleave between any two accesses of            *)
(* self.tokens and self.available_slots.                                   *)
IssuedToken == GenerateToken(0, 100000)

ConcInit ==
    /\ tokens = Put(<<>>, IssuedToken,
                    [candidate_id |-> "candidate_1", job_id |-> "job_1",
                     expiration |-> 60 * 48])
    /\ available_slots = <<>>
    /\ interviews = <<>>
    /\ served = <<>>
    /\ proc = [p \in {1, 2} |-> Idle]
    /\ issues_left = 0
    /\ finds_left = MaxFinds
    /\ consumed = {}
    /\ clock = 0
    /\ PipelineUnused
    /\ SchedulerUnused

ConcSpec == ConcInit /\ [][Serve]_vars

----------------------------------------------------------------------------
(* Properties of the token service.                                        *)

TokenErrors == {"Invalid token", "Token expired"}

InterviewsOf(token) ==
    {k \in DOMAIN interviews : interviews[k].token = token}

TokensSeen == DOMAIN tokens \cup consumed

SlotIdsOf(slots) == {slots[k].slot_id : k \in DOMAIN slots}

(* C1: with one caller, once a confirm_slot on a token has succeeded every  *)
(* later confirm_slot on that token is turned away with a token error       *)
(* before it looks up a slot or schedules anything, and so no token ever    *)
(* has more than one interview.                                             *)
C1_ConfirmAtMostOnce ==
    /\ \A p \in Callers :
          (proc[p].op = "confirm" /\ proc[p].late) =>
              /\ proc[p].at \in {"validate", "read_token", "done"}
              /\ proc[p].at = "done" => proc[p].result \in TokenErrors
    /\ \A token \in TokensSeen : Cardinality(InterviewsOf(token)) <= 1

(* C2: with two callers confirming on one token, no interleaving books two  *)
(* interviews for the token, and no caller reaches one of confirm_slot's    *)
(* deletions, its interview already booked, to find the entry gone.         *)
C2_ConcurrentConfirmBooksOnce ==
    /\ \A token \in TokensSeen : Cardinality(InterviewsOf(token)) <= 1
    /\ \A p \in Callers :
          /\ proc[p].at = "del_slots" => proc[p].token \in DOMAIN available_slots
          /\ proc[p].at = "del_token" => proc[p].token \in DOMAIN tokens

(* C10: for a token not yet confirmed, every slot id any get_available_slots *)
(* has returned for it is still in the list stored for it.                  *)
C10_ServedSlotsStayConfirmable ==
    \A token \in DOMAIN tokens \ consumed :
        (token \in DOMAIN served /\ \A p \in Callers : proc[p].at # "del_token") =>
            /\ token \in DOMAIN available_slots
            /\ served[token] \subseteq SlotIdsOf(available_slots[token])

(* A call of get_available_slots or confirm_slot is under way or has just  *)
(* returned.                                                               *)
InCall(p) == proc[p].op \in {"get", "confirm"}

(* The call was turned away by validate_token, or is still inside it.      *)
TurnedAway(p) ==
    /\ proc[p].at \in {"validate", "read_token", "done"}
    /\ proc[p].at = "done" => proc[p].result \in TokenErrors

(* C11: a get_available_slots or confirm_slot whose token was unknown,      *)
(* expired or already consumed when the call was made never gets past       *)
(* validate_token (so it finds no slots, schedules nothing and writes       *)
(* neither self.tokens nor self.available_slots) and ends in a token error. *)
C11_BadTokenTurnedAway ==
    \A p \in Callers :
        (InCall(p) /\ (~proc[p].valid \/ proc[p].late)) => TurnedAway(p)

(* validate_token has accepted the call's token.                           *)
Validated(p) == proc[p].token_data # NoData

SlotErrors == {"Invalid slot ID", "No available slots for this token"}

(* The slot id is one of the list stored for the token.                    *)
Listed(token, slot_id) ==
    /\ token \in DOMAIN available_slots
    /\ slot_id \in SlotIdsOf(available_slots[token])

(* A confirm_slot with an accepted token goes on to schedule only with a   *)
(* listed slot id, and otherwise ends in a slot error with the token still *)
(* in the table under the data validate_token read.                        *)
UnlistedSlotRefused ==
    \A p \in Callers :
        (proc[p].op = "confirm" /\ Validated(p)) =>
            /\ proc[p].at = "schedule" => Listed(proc[p].token, proc[p].slot_id)
            /\ (proc[p].at = "done" /\ proc[p].result # "ok") =>
                  /\ proc[p].result \in SlotErrors
                  /\ ~Listed(proc[p].token, proc[p].slot_id)
                  /\ proc[p].token \in DOMAIN tokens
                  /\ tokens[proc[p].token] = proc[p].token_data

(* A step of confirm_slot that is not one of its deletions and not its      *)
(* call of schedule_interview writes nothing.                              *)
RefusalWritesNothing ==
    \A p \in Callers :
        (/\ proc'[p] # proc[p]
         /\ proc'[p].op = "confirm"
         /\ proc'[p].at \in {"validate", "read_token", "check_slots",
                              "find_slot", "schedule"}
            \/ (proc'[p].at = "done" /\ proc'[p].result # "ok"))
        => UNCHANGED <<tokens, available_slots, interviews, served, consumed>>

(* C12: with one caller, confirm_slot with an accepted token and a slot id  *)
(* that is not in the list stored for the token (or with no list stored)    *)
(* ends in a slot error, having scheduled nothing and written nothing: the  *)
(* token and its list are as they were.                                     *)
C12_UnlistedSlotNoEffect ==
    []UnlistedSlotRefused /\ [][RefusalWritesNothing]_vars

(* A confirm_slot was refused for its slot id while the token has a        *)
(* non-empty list stored, which is still there.                            *)
C12_Witness ==
    \E p \in Callers :
        /\ proc[p].op = "confirm"
        /\ proc[p].at = "done"
        /\ proc[p].result = "Invalid slot ID"
        /\ proc[p].token \in DOMAIN tokens
        /\ proc[p].token \in DOMAIN available_slots
        /\ available_slots[proc[p].token] # <<>>

(* The interview schedule_interview returned last.                         *)
LastInterview == interviews[Len(interviews)].interview

(* The slot's time range is the interview's.                               *)
BooksRangeOf(interview, slot) ==
    /\ interview.start_time = slot.start_time
    /\ interview.end_time = slot.end_time

(* C13: with one caller, a confirm_slot that has scheduled (and has not yet *)
(* deleted the list) has got an interview with status scheduled, for the    *)
(* token's candidate and the job's interviewers, at the time range of       *)
(* every listed slot that bears the slot id the caller passed; and once it  *)
(* has returned the interview, no list is stored for the token.             *)
C13_ConfirmBooksSelectedSlot ==
    \A p \in Callers :
        proc[p].op = "confirm" =>
            /\ proc[p].at = "del_slots" =>
                  /\ interviews # <<>>
                  /\ LastInterview.status = "scheduled"
                  /\ LastInterview.candidate_id = tokens[proc[p].token].candidate_id
                  /\ LastInterview.interviewer_ids = InterviewerIds
                  /\ \A k \in DOMAIN available_slots[proc[p].token] :
                        LET slot == available_slots[proc[p].token][k]
                        IN  slot.slot_id = proc[p].slot_id =>
                                BooksRangeOf(LastInterview, slot)
            /\ (proc[p].at = "done" /\ proc[p].result = "ok") =>
                  proc[p].token \notin DOMAIN available_slots

(* C21: a token that validate_token would turn away, because it has        *)
(* expired or because it was consumed, is never made valid again by any    *)
(* step: not by the clock, by issuing a token, by get_available_slots or   *)
(* by confirm_slot, failed or not.                                         *)
C21_NeverValidAgain ==
    [][\A token \in TokensSeen : ~IsValidNow(token) => ~IsValidNow(token)']_vars

(* confirm_slot has found the slot the caller selected.                    *)
Decided(p) == proc[p].op = "confirm" /\ proc[p].selected_slot # NoSlot

(* The last interview scheduled is the caller's, for its token.            *)
HasInterview(p) ==
    /\ interviews # <<>>
    /\ interviews[Len(interviews)].caller = p
    /\ interviews[Len(interviews)].token = proc[p].token
    /\ LastInterview.status = "scheduled"

(* C22: with one caller, a confirm_slot that has passed validate_token and *)
(* found the selected slot gets an interview from schedule_interview       *)
(* whichever create_event calls failed, deletes the token's list and the   *)
(* token, and returns the interview; the token is then no longer in the    *)
(* table.                                                                  *)
C22_DecidedConfirmConsumes ==
    \A p \in Callers :
        Decided(p) =>
            /\ proc[p].at \in {"find_slot", "schedule", "del_slots", "del_token", "done"}
            /\ proc[p].at \in {"del_slots", "del_token"} => HasInterview(p)
            /\ proc[p].at = "done" =>
                  /\ proc[p].result = "ok"
                  /\ HasInterview(p)
                  /\ proc[p].token \notin DOMAIN tokens
                  /\ proc[p].token \notin DOMAIN available_slots
                  /\ proc[p].token \in consumed

(* A confirm_slot returned its interview, for which every create_event had *)
(* failed, and the token is gone.                                          *)
C22_Witness ==
    \E p \in Callers :
        /\ Decided(p)
        /\ proc[p].at = "done"
        /\ proc[p].result = "ok"
        /\ DOMAIN LastInterview.events = {}
        /\ proc[p].token \notin DOMAIN tokens

(* C28: within the slot list cached for a token the slot ids are pairwise  *)
(* distinct, so that the id passed to confirm_slot names one slot of the   *)
(* list and the interview is booked for that slot's range.                 *)
C28_SlotIdsDistinct ==
    \A token \in DOMAIN available_slots :
        \A j, k \in DOMAIN available_slots[token] :
            available_slots[token][j].slot_id = available_slots[token][k].slot_id
                => j = k

(* C29: every token with a cached slot list is in the token table, however *)
(* the steps of get_available_slots and confirm_slot calls interleave.     *)
C29_CachedTokensExist ==
    DOMAIN available_slots \subseteq DOMAIN tokens

----------------------------------------------------------------------------
(* InterviewScheduler.schedule_interview, reschedule_interview and         *)
(* cancel_interview (scheduling_engine.py), stepped one collaborator call  *)
(* at a time.  The scheduler keeps no interviews: reschedule and cancel    *)
(* work on a record they make up for whatever id they are given.           *)

MaxOps == 3

UnknownInterviewId == <<"interview", 0, 0>>

(* The "events" of the record reschedule_interview and cancel_interview    *)
(* simulate, in the order of the dictionary.                               *)
SimulatedEventList ==
    <<[user |-> "candidate_67890", event |-> <<"event", "1">>],
      [user |-> "interviewer_11111", event |-> <<"event", "2">>],
      [user |-> "interviewer_22222", event |-> <<"event", "3">>]>>

SimulatedEvents ==
    [u \in {SimulatedEventList[k].user : k \in DOMAIN SimulatedEventList} |->
        [id |-> SimulatedEventList[CHOOSE k \in DOMAIN SimulatedEventList :
                                      SimulatedEventList[k].user = u].event]]

(* The interviewer lists and time ranges handed to the scheduler.          *)
InterviewerPool == {<<>>, InterviewerIds}
RangePool == {<<Tue9.start_time, Tue9.end_time>>}
NewRangePool == {<<Tue18.start_time, Tue18.end_time>>}

(* The ids a caller can pass: of an interview it was returned, or another. *)
InterviewIdPool ==
    {returned[k].interview.id : k \in DOMAIN returned} \cup {UnknownInterviewId}

(* schedule_interview attempts the interviewers in order, the candidate    *)
(* last.                                                                   *)
Participants(interviewer_ids, candidate_id) ==
    [k \in 1..Len(interviewer_ids) + 1 |->
        [user |-> IF k <= Len(interviewer_ids) THEN interviewer_ids[k]
                  ELSE candidate_id,
         event |-> <<>>]]

IdleSched ==
    [op |-> "none", at |-> "idle", interview_id |-> <<>>, job_id |-> "",
     candidate_id |-> "", interviewer_ids |-> <<>>, start_time |-> 0,
     end_time |-> 0, todo |-> <<>>, events |-> <<>>]

(* The calendar call each operation makes per participant. *)
CalendarCallOf(op) ==
    CASE op = "schedule" -> "create_event"
      [] op = "reschedule" -> "update_event"
      [] OTHER -> "delete_event"

NotificationOf(op) ==
    CASE op = "schedule" -> "send_interview_confirmation"
      [] op = "reschedule" -> "send_reschedule_notification"
      [] OTHER -> "send_cancellation_notification"

CalendarCalls == {"create_event", "update_event", "delete_event"}

(* What update_event returns for an event. *)
UpdatedEvent(event) == [id |-> event]

(* Mutant: the first calendar call that raises ends the loop.              *)
AfterCallAbort(todo, ok) == IF ok THEN Tail(todo) ELSE <<>>

(* The participants still to attempt after a call: each call sits in its   *)
(* own try/except, so the loop goes on whatever the call did.              *)
AfterCall(todo, ok) == Tail(todo)

(* Mutant: a create_event that raises drops the events created so far.    *)
RecordedOrRolledBack(events, op, next, ok) ==
    IF op = "cancel" THEN events
    ELSE IF ~ok THEN (IF op = "schedule" THEN <<>> ELSE events)
    ELSE IF op = "schedule" THEN Put(events, next.user, EventFor(next.user))
    ELSE Put(events, next.user, UpdatedEvent(next.event))

(* The events dictionary after a call: "events[...] = event" when          *)
(* create_event or update_event returned, untouched when the call raised;  *)
(* cancel_interview records nothing.                                       *)
Recorded(events, op, next, ok) ==
    IF ~ok \/ op = "cancel" THEN events
    ELSE IF op = "schedule" THEN Put(events, next.user, EventFor(next.user))
    ELSE Put(events, next.user, UpdatedEvent(next.event))

(* Mutant: the notification is sent after the first calendar call.         *)
AllAttemptedEarly(todo) == TRUE

(* The per-participant loop is over. *)
AllAttempted(todo) == todo = <<>>

(* reschedule_interview: the simulated record, updated.                    *)
RescheduleInterview(interview_id, st, en, events) ==
    [id |-> interview_id, job_id |-> "job_12345",
     candidate_id |-> "candidate_67890", interviewer_ids |-> InterviewerIds,
     start_time |-> st, end_time |-> en, status |-> "rescheduled",
     events |-> events]

(* cancel_interview: the simulated record, its events as simulated.        *)
CancelInterview(interview_id) ==
    [id |-> interview_id, job_id |-> "job_12345",
     candidate_id |-> "candidate_67890", interviewer_ids |-> InterviewerIds,
     status |-> "cancelled", events |-> SimulatedEvents]

SchedInit ==
    /\ communication_service \in BOOLEAN
    /\ sched = IdleSched
    /\ calls = <<>>
    /\ returned = <<>>
    /\ clock = 0
    /\ ServiceUnused
    /\ PipelineUnused

otherVars == <<findVars, serviceVars>>

(* schedule_interview up to the first create_event.                        *)
CallScheduleInterview ==
    /\ sched.at = "idle"
    /\ Len(returned) < MaxOps
    /\ \E job_id \in JobPool, candidate_id \in CandidatePool,
          interviewer_ids \in InterviewerPool, range \in RangePool,
          r \in InterviewRandomPool :
          sched' = [op |-> "schedule", at |-> "events",
                    interview_id |-> GenerateInterviewId(clock, r),
                    job_id |-> job_id, candidate_id |-> candidate_id,
                    interviewer_ids |-> interviewer_ids,
                    start_time |-> range[1], end_time |-> range[2],
                    todo |-> Participants(interviewer_ids, candidate_id),
                    events |-> <<>>]
    /\ calls' = <<>>
    /\ UNCHANGED <<otherVars, communication_service, returned>>

(* reschedule_interview up to the first update_event.                      *)
CallRescheduleInterview ==
    /\ sched.at = "idle"
    /\ Len(returned) < MaxOps
    /\ \E interview_id \in InterviewIdPool, range \in NewRangePool :
          sched' = [op |-> "reschedule", at |-> "events",
                    interview_id |-> interview_id,
                    job_id |-> "job_12345", candidate_id |-> "candidate_67890",
                    interviewer_ids |-> InterviewerIds,
                    start_time |-> range[1], end_time |-> range[2],
                    todo |-> SimulatedEventList, events |-> <<>>]
    /\ calls' = <<>>
    /\ UNCHANGED <<otherVars, communication_service, returned>>

(* cancel_interview up to the first delete_event.                          *)
CallCancelInterview ==
    /\ sched.at = "idle"
    /\ Len(returned) < MaxOps
    /\ \E interview_id \in InterviewIdPool :
          sched' = [op |-> "cancel", at |-> "events",
                    interview_id |-> interview_id,
                    job_id |-> "job_12345", candidate_id |-> "candidate_67890",
                    interviewer_ids |-> InterviewerIds,
                    start_time |-> 0, end_time |-> 0,
                    todo |-> SimulatedEventList, events |-> SimulatedEvents]
    /\ calls' = <<>>
    /\ UNCHANGED <<otherVars, communication_service, returned>>

(* One pass of the per-participant loop: the calendar call returns or      *)
(* raises; what create_event or update_event returned is kept in events.   *)
CalendarCall ==
    /\ sched.at = "events"
    /\ sched.todo # <<>>
    /\ \E ok \in BOOLEAN :
          LET next == sched.todo[1]
              rest == AfterCall(sched.todo, ok)
              kept == Recorded(sched.events, sched.op, next, ok)
          IN  /\ calls' = Append(calls, [call |-> CalendarCallOf(sched.op),
                                         user |-> next.user,
                                         event |-> next.event, ok |-> ok])
              /\ sched' = [sched EXCEPT !.todo = rest, !.events = kept,
                                        !.at = IF AllAttempted(rest)
                                               THEN "notify" ELSE "events"]
    /\ UNCHANGED <<otherVars, communication_service, returned>>

(* "if self.communication_service:" and the send inside try/except.        *)
Notify ==
    /\ sched.at = "notify"
    /\ IF communication_service
       THEN \E ok \in BOOLEAN :
               calls' = Append(calls, [call |-> NotificationOf(sched.op),
                                       user |-> "", event |-> <<>>, ok |-> ok])
       ELSE UNCHANGED calls
    /\ sched' = [sched EXCEPT !.at = "return"]
    /\ UNCHANGED <<otherVars, communication_service, returned>>

(* The record the operation builds and returns.                            *)
ReturnInterview ==
    /\ sched.at = "return"
    /\ returned' =
         Append(returned,
                [op |-> sched.op,
                 interview |->
                    CASE sched.op = "schedule" ->
                           ScheduleInterview(sched.interview_id, sched.job_id,
                                             sched.candidate_id,
                                             sched.interviewer_ids,
                                             sched.start_time, sched.end_time,
                                             sched.events)
                      [] sched.op = "reschedule" ->
                           RescheduleInterview(sched.interview_id,
                                               sched.start_time, sched.end_time,
                                               sched.events)
                      [] OTHER -> CancelInterview(sched.interview_id)])
    /\ sched' = [sched EXCEPT !.at = "idle"]
    /\ UNCHANGED <<otherVars, communication_service, calls>>

SchedNext ==
    \/ CallScheduleInterview
    \/ CallRescheduleInterview
    \/ CallCancelInterview
    \/ CalendarCall
    \/ Notify
    \/ ReturnInterview

SchedSpec == SchedInit /\ [][SchedNext]_vars

----------------------------------------------------------------------------
(* Claims about the scheduler.                                             *)

IsCalendarCall(c) == c.call \in CalendarCalls
CalendarCallsMade == SelectSeq(calls, IsCalendarCall)
UsersOf(list) == [k \in DOMAIN list |-> list[k].user]
LoopOver(op) == sched.op = op /\ sched.at \in {"notify", "return", "idle"}
LastReturned == returned[Len(returned)]
JustReturned(op) == sched.op = op /\ sched.at = "idle"

(* C14: schedule_interview attempts create_event once for each            *)
(* participant, the interviewers in order and then the candidate, whatever *)
(* the calls before did, and returns a record with status "scheduled"      *)
(* for every combination of successes and failures.                        *)
C14_ScheduleAttemptsEveryone ==
    /\ LoopOver("schedule") =>
          /\ UsersOf(CalendarCallsMade)
               = UsersOf(Participants(sched.interviewer_ids, sched.candidate_id))
          /\ \A k \in DOMAIN CalendarCallsMade :
                CalendarCallsMade[k].call = "create_event"
    /\ JustReturned("schedule") =>
          /\ LastReturned.op = "schedule"
          /\ LastReturned.interview.id = sched.interview_id
    /\ \A k \in DOMAIN returned :
          returned[k].op = "schedule" => returned[k].interview.status = "scheduled"

(* Three participants, every create_event failed, and the interview came   *)
(* back scheduled.                                                         *)
C14_Witness ==
    /\ JustReturned("schedule")
    /\ Len(CalendarCallsMade) = 3
    /\ \A k \in DOMAIN CalendarCallsMade : ~CalendarCallsMade[k].ok
    /\ LastReturned.interview.status = "scheduled"

(* C15: when a calendar call fails for some participants, the returned     *)
(* interview tells for every participant whether the call succeeded: a     *)
(* participant is under "events" exactly when its call succeeded.          *)
C15_OutcomesRecorded ==
    \A op \in {"schedule", "reschedule", "cancel"} :
        JustReturned(op) =>
            \A k \in DOMAIN CalendarCallsMade :
                CalendarCallsMade[k].ok
                    <=> CalendarCallsMade[k].user
                            \in DOMAIN LastReturned.interview.events

(* The participants whose calendar call succeeded, and what the record     *)
(* holds for them, read from the calls alone.                              *)
Succeeded == {k \in DOMAIN CalendarCallsMade : CalendarCallsMade[k].ok}
EventsFromCalls(op) ==
    IF op = "cancel" THEN SimulatedEvents
    ELSE [u \in {CalendarCallsMade[k].user : k \in Succeeded} |->
             IF op = "schedule" THEN EventFor(u)
             ELSE UpdatedEvent(SimulatedEvents[u].id)]
StatusOf(op) ==
    CASE op = "schedule" -> "scheduled"
      [] op = "reschedule" -> "rescheduled"
      [] OTHER -> "cancelled"
ExpectedUsers ==
    IF sched.op = "schedule"
    THEN UsersOf(Participants(sched.interviewer_ids, sched.candidate_id))
    ELSE UsersOf(SimulatedEventList)

(* C16: the notification is sent only once every calendar call of the      *)
(* operation has been attempted, nothing is called after it, and the       *)
(* returned interview (status, times, events) is what the calendar calls   *)
(* alone determine, whether the notification raised or not.                *)
C16_NotificationLastAndIgnored ==
    /\ \A k \in DOMAIN calls :
          ~IsCalendarCall(calls[k]) =>
              /\ k = Len(calls)
              /\ calls[k].call = NotificationOf(sched.op)
              /\ UsersOf(SubSeq(calls, 1, k - 1)) = ExpectedUsers
    /\ \A op \in {"schedule", "reschedule", "cancel"} :
          JustReturned(op) =>
              /\ LastReturned.interview.status = StatusOf(op)
              /\ LastReturned.interview.events = EventsFromCalls(op)
              /\ op # "cancel" =>
                    /\ LastReturned.interview.start_time = sched.start_time
                    /\ LastReturned.interview.end_time = sched.end_time

(* A reschedule whose notification raised after one update_event had       *)
(* failed and two had succeeded.                                           *)
C16_Witness ==
    /\ JustReturned("reschedule")
    /\ Len(calls) = 4
    /\ ~calls[4].ok
    /\ calls[4].call = "send_reschedule_notification"
    /\ Cardinality(Succeeded) = 2
    /\ LastReturned.interview.status = "rescheduled"

(* The interviews schedule_interview returned so far with the id the       *)
(* operation under way was given.                                          *)
ScheduledAs(id) ==
    {returned[k].interview : k \in {j \in DOMAIN returned :
        returned[j].op = "schedule" /\ returned[j].interview.id = id}}

(* C17: cancel_interview on the id of an interview that schedule_interview *)
(* returned calls delete_event for exactly the participants recorded under *)
(* its "events", each with the recorded event, and returns that interview  *)
(* with status "cancelled".                                                *)
C17_CancelDeletesRecordedEvents ==
    JustReturned("cancel") =>
        \A I \in ScheduledAs(sched.interview_id) :
            /\ {<<CalendarCallsMade[k].user, CalendarCallsMade[k].event>> :
                    k \in DOMAIN CalendarCallsMade}
                 = {<<u, I.events[u].id>> : u \in DOMAIN I.events}
            /\ LastReturned.interview.status = "cancelled"
            /\ LastReturned.interview.id = I.id
            /\ LastReturned.interview.candidate_id = I.candidate_id
            /\ LastReturned.interview.interviewer_ids = I.interviewer_ids
            /\ LastReturned.interview.events = I.events

(* The operations that had returned before the one under way began.        *)
Earlier == 1..(IF sched.at = "idle" THEN Len(returned) - 1 ELSE Len(returned))

(* C18: once cancel_interview has returned for an id, a later              *)
(* reschedule_interview or cancel_interview with that id makes no calendar *)
(* call and does not return the interview as rescheduled.                  *)
C18_CancelledIsTerminal ==
    (/\ sched.op \in {"reschedule", "cancel"}
     /\ \E k \in Earlier : /\ returned[k].op = "cancel"
                           /\ returned[k].interview.id = sched.interview_id)
    => /\ CalendarCallsMade = <<>>
       /\ JustReturned("reschedule") => LastReturned.interview.status # "rescheduled"

(* C23: schedule_interview never deletes or updates an event, a            *)
(* create_event that raises leaves the events created before it in place,  *)
(* and "events" holds exactly the participants whose create_event          *)
(* returned, each with the event that call returned, during the loop and   *)
(* in the interview returned.                                              *)
C23_NoRollback ==
    sched.op = "schedule" =>
        /\ \A k \in DOMAIN calls : calls[k].call \notin {"delete_event", "update_event"}
        /\ DOMAIN sched.events = {CalendarCallsMade[k].user : k \in Succeeded}
        /\ \A u \in DOMAIN sched.events : sched.events[u] = EventFor(u)
        /\ JustReturned("schedule") => LastReturned.interview.events = sched.events

(* The first create_event returned, a later one raised, and the first      *)
(* participant's event is in the interview returned.                       *)
C23_Witness ==
    /\ JustReturned("schedule")
    /\ Len(CalendarCallsMade) = 3
    /\ CalendarCallsMade[1].ok
    /\ ~CalendarCallsMade[3].ok
    /\ CalendarCallsMade[1].user \in DOMAIN LastReturned.interview.events
    /\ CalendarCallsMade[3].user \notin DOMAIN LastReturned.interview.events

(* C24: reschedule_interview on the id of an interview that                *)
(* schedule_interview returned calls update_event once for each event      *)
(* recorded in it, whatever fails, and returns that interview (id, job,    *)
(* candidate, interviewers) with the new times and status "rescheduled".   *)
C24_RescheduleUpdatesRecordedEvents ==
    JustReturned("reschedule") =>
        \A I \in ScheduledAs(sched.interview_id) :
            /\ {<<CalendarCallsMade[k].user, CalendarCallsMade[k].event>> :
                    k \in DOMAIN CalendarCallsMade}
                 = {<<u, I.events[u].id>> : u \in DOMAIN I.events}
            /\ Len(CalendarCallsMade) = Cardinality(DOMAIN I.events)
            /\ LastReturned.interview.status = "rescheduled"
            /\ LastReturned.interview.id = I.id
            /\ LastReturned.interview.job_id = I.job_id
            /\ LastReturned.interview.candidate_id = I.candidate_id
            /\ LastReturned.interview.interviewer_ids = I.interviewer_ids
            /\ LastReturned.interview.start_time = sched.start_time
            /\ LastReturned.interview.end_time = sched.end_time

(* The slot scores 0 on one of the two default constraints, or 10 on both. *)
FailsHard(slot) ==
    \E k \in DOMAIN DefaultConstraints : Evaluate(DefaultConstraints[k], slot, clock) = 0
MeetsHard(slot) == ~FailsHard(slot)

ScoredAboveZero(slot) ==
    \E k \in DOMAIN RequestConstraints : Evaluate(RequestConstraints[k], slot, clock) > 0
CountedAboveZero(slot) ==
    \E k \in DOMAIN RequestConstraints :
        /\ RequestConstraints[k].weight > 0
        /\ Evaluate(RequestConstraints[k], slot, clock) > 0

CommonRanges == {TimeRange(common_slots[k]) : k \in DOMAIN common_slots}
RankedRangeSet == {TimeRange(ranked_slots[k]) : k \in DOMAIN ranked_slots}

NothingFiltered ==
    /\ Len(ranked_slots) = Min(max_slots, Len(common_slots))
    /\ RankedRangeSet \subseteq CommonRanges
    /\ max_slots >= Len(common_slots) => RankedRangeSet = CommonRanges

(* C26 as stated: a slot that scores 0 on BusinessHours or MinimumNotice   *)
(* is returned all the same (every common slot is, when max_slots allows), *)
(* and its score is positive whenever some other constraint scores it      *)
(* above 0.                                                                *)
C26_ScoredNeverFiltered ==
    pc = "done" =>
        /\ NothingFiltered
        /\ \A k \in DOMAIN ranked_slots :
              (FailsHard(ranked_slots[k]) /\ ScoredAboveZero(ranked_slots[k]))
                  => ranked_slots[k].score.num > 0

(* C26, amended: as stated, for a score above 0 from a constraint whose    *)
(* weight is above 0; a slot without one has score 0 and is returned too.  *)
C26_CountedNeverFiltered ==
    pc = "done" =>
        /\ NothingFiltered
        /\ \A k \in DOMAIN ranked_slots :
              ranked_slots[k].score.num > 0 <=> CountedAboveZero(ranked_slots[k])

(* A slot outside business hours came out ahead of one that meets both     *)
(* default constraints.                                                    *)
C26_Witness ==
    /\ pc = "done"
    /\ Len(ranked_slots) = 2
    /\ FailsHard(ranked_slots[1])
    /\ MeetsHard(ranked_slots[2])
    /\ ScoreGT(ranked_slots[1].score, ranked_slots[2].score)
    /\ RankedRangeSet = CommonRanges

----------------------------------------------------------------------------
(* _score_slots as the interpreter computes it: in binary floating point,  *)
(* every operation rounded to the nearest value, ties to even.  A float is *)
(* [m, e], standing for m * 2^e, with m = 0 or 2^(p-1) <= m < 2^p, where p *)
(* is the width of the significand (53 in the interpreter).                *)

MantissaBits == 8

RECURSIVE Pow2(_)
Pow2(k) == IF k <= 0 THEN 1 ELSE 2 * Pow2(k - 1)

RoundHalfEven(n, d) ==
    LET q == n \div d
        r == n % d
    IN  IF 2 * r > d \/ (2 * r = d /\ q % 2 = 1) THEN q + 1 ELSE q

FloatZero == [m |-> 0, e |-> 0]

(* The k with 2^(p-1) <= (n / d) / 2^k < 2^p, for n > 0 and d > 0.         *)
RECURSIVE Exponent(_, _)
Exponent(n, d) ==
    IF n >= Pow2(MantissaBits) * d THEN Exponent(n, 2 * d) + 1
    ELSE IF n < Pow2(MantissaBits - 1) * d THEN Exponent(2 * n, d) - 1
    ELSE 0

(* The float nearest to (n / d) * 2^x, for n >= 0 and d > 0.               *)
FloatOf(n, d, x) ==
    IF n = 0 THEN FloatZero
    ELSE LET e == Exponent(n, d)
             m == RoundHalfEven(n * Pow2(-e), d * Pow2(e))
         IN  IF m = Pow2(MantissaBits)
             THEN [m |-> Pow2(MantissaBits - 1), e |-> e + x + 1]
             ELSE [m |-> m, e |-> e + x]

(* A literal or a score given in tenths: 0.3, 0.9, 1.0.                    *)
FloatOfTenths(t) == FloatOf(t, 10, 0)

FloatAdd(a, b) ==
    IF a.m = 0 THEN b
    ELSE IF b.m = 0 THEN a
    ELSE LET x == Min(a.e, b.e)
         IN  FloatOf(a.m * Pow2(a.e - x) + b.m * Pow2(b.e - x), 1, x)

FloatMul(a, b) == FloatOf(a.m * b.m, 1, a.e + b.e)

FloatDiv(a, b) == FloatOf(a.m, b.m, a.e - b.e)

(* The float as a fraction num / den, the form of a slot's score.          *)
FloatScore(a) ==
    IF a.e >= 0 THEN [num |-> a.m * Pow2(a.e), den |-> 1]
    ELSE [num |-> a.m, den |-> Pow2(-a.e)]

(* sum(...) and the "+=" loop: added up from the left, starting at 0.      *)
RECURSIVE FloatSum(_)
FloatSum(s) ==
    IF s = <<>> THEN FloatZero
    ELSE FloatAdd(FloatSum(SubSeq(s, 1, Len(s) - 1)), s[Len(s)])

(* Mutant: only the first constraint of the list counts.                   *)
FloatScoreOfFirst(slot, constraints, now) ==
    IF constraints = <<>> THEN [num |-> 1, den |-> 1]
    ELSE FloatScore(FloatOfTenths(Evaluate(constraints[1], slot, now)))

(* _score_slots: the normalized score of one slot.                         *)
FloatScoreOf(slot, constraints, now) ==
    LET total_weight ==
            FloatSum([k \in 1..Len(constraints) |->
                         FloatOfTenths(constraints[k].weight)])
        weighted_score ==
            FloatSum([k \in 1..Len(constraints) |->
                         FloatMul(FloatOfTenths(Evaluate(constraints[k], slot, now)),
                                  FloatOfTenths(constraints[k].weight))])
    IN  IF total_weight.m > 0
        THEN FloatScore(FloatDiv(weighted_score, total_weight))
        ELSE [num |-> 1, den |-> 1]

FloatScoreSlots(slots, constraints, now) ==
    [k \in 1..Len(slots) |->
        [start_time |-> slots[k].start_time,
         end_time |-> slots[k].end_time,
         duration_minutes |-> slots[k].duration_minutes,
         score |-> FloatScoreOf(slots[k], constraints, now)]]

----------------------------------------------------------------------------
(* Scoring and ranking on their own: _score_slots called with a list of    *)
(* constraints, and find_available_slots from the common slots on, with    *)
(* explicit constraints and preferences.                                   *)

Tue16 == Slot(Tuesday + 16 * 60, Tuesday + 17 * 60)

Mon18 == Slot(18 * 60, 19 * 60)

SlotListPool ==
    {<<>>, <<Tue18>>, <<Tue9, Tue16>>, <<Tue16, Tue9>>, <<Mon16, Tue9>>,
     <<Tue9, Mon16>>, <<Tue16, Mon16, Tue9>>, <<Tue9, Tue18>>, <<Mon18, Tue9>>}

(* Lists of constraints a caller passes; weights are tenths.               *)
ConstraintListPool ==
    {<<>>,
     <<BusinessHoursConstraint(0)>>,
     <<BusinessHoursConstraint(0), MinimumNoticeConstraint(0)>>,
     <<MinimumNoticeConstraint(5), TimePreferenceConstraint("evening", 10)>>,
     <<DayAvoidanceConstraint({1}, 10)>>,
     <<TimePreferenceConstraint("afternoon", 5)>>,
     <<TimePreferenceConstraint("evening", 0)>>}

Prefer(time_of_day, mondays, dates) ==
    [preferred_time_of_day |-> time_of_day, avoid_mondays |-> mondays,
     avoid_fridays |-> FALSE, avoid_weekends |-> FALSE, has_dates |-> dates,
     preferred_start_date |-> IF dates THEN Tuesday ELSE 0,
     preferred_end_date |-> IF dates THEN 2 * Tuesday ELSE 0]

PreferencePool ==
    {NoPreferences, Prefer("morning", FALSE, FALSE), Prefer("morning", TRUE, FALSE),
     Prefer("morning", TRUE, TRUE), Prefer("afternoon", FALSE, FALSE),
     Prefer("evening", FALSE, FALSE)}

RankInit ==
    \E slots \in SlotListPool :
    \E cs \in ConstraintListPool :
    \E prefs \in PreferencePool :
    \E m \in {1, DefaultMaxSlots} :
       /\ user_ids = <<>>
       /\ calendars = <<>>
       /\ start_time = 0
       /\ end_time = 2 * Tuesday
       /\ duration_minutes = 60
       /\ max_slots = m
       /\ preferences = prefs
       /\ request_constraints = cs
       /\ clock = 0
       /\ pc \in {"score", "rank"}
       /\ idx = 1
       /\ all_availability = <<>>
       /\ potential_common = <<>>
       /\ visited = {}
       /\ common_slots = slots
       /\ evaluated = 0
       /\ ranked_slots = <<>>
       /\ ServiceUnused
       /\ SchedulerUnused

(* _score_slots(slots, constraints, context) with the list as passed.      *)
ScoreSlotsCall ==
    /\ pc = "score"
    /\ ranked_slots' = ScoreSlots(common_slots, request_constraints, clock)
    /\ evaluated' = Len(common_slots) * Len(request_constraints)
    /\ pc' = "scored"
    /\ UNCHANGED <<requestVars, idx, all_availability, potential_common, visited,
                   common_slots>>

RankNext ==
    \/ ScoreSlotsCall
    \/ RankCommon

RankSpec == RankInit /\ [][RankNext]_vars

(* The constraints a finished call applied.                                *)
Applied == IF pc = "scored" THEN request_constraints ELSE RequestConstraints

(* Sums over the constraints, added up from the last one.                  *)
RECURSIVE WeightUpTo(_, _)
WeightUpTo(cs, n) == IF n = 0 THEN 0 ELSE WeightUpTo(cs, n - 1) + cs[n].weight
RECURSIVE WeightedUpTo(_, _, _)
WeightedUpTo(cs, slot, n) ==
    IF n = 0 THEN 0
    ELSE WeightedUpTo(cs, slot, n - 1) + Evaluate(cs[n], slot, clock) * cs[n].weight

PreferenceIndex == Len(DefaultConstraints) + Len(request_constraints) + 1

OtherwiseEqual(a, b) ==
    \A k \in DOMAIN RequestConstraints \ {PreferenceIndex} :
        Evaluate(RequestConstraints[k], a, clock)
            = Evaluate(RequestConstraints[k], b, clock)

At(slot, h) == TimeOfDay(slot.start_time) = h * 60
Delivered(slot) == {k \in DOMAIN ranked_slots : TimeRange(ranked_slots[k]) = TimeRange(slot)}

(* C20: with preferred_time_of_day "morning", a 09:00 slot and a 16:00     *)
(* slot that every other constraint scores alike come out with the 09:00   *)
(* slot strictly ahead in score and in place, in whichever order they      *)
(* were supplied; the 16:00 slot is never delivered without the 09:00 one. *)
C20_MorningRanksFirst ==
    (pc = "done" /\ preferences.preferred_time_of_day = "morning") =>
        \A a \in Range(common_slots), b \in Range(common_slots) :
            (At(a, 9) /\ At(b, 16) /\ OtherwiseEqual(a, b)) =>
                /\ Delivered(b) # {} => Delivered(a) # {}
                /\ \A i \in Delivered(a), j \in Delivered(b) :
                      /\ i < j
                      /\ ScoreGT(ranked_slots[i].score, ranked_slots[j].score)

(* The 16:00 slot was supplied first and came out second.                  *)
C20_Witness ==
    /\ pc = "done"
    /\ preferences.preferred_time_of_day = "morning"
    /\ common_slots = <<Tue16, Tue9>>
    /\ OtherwiseEqual(Tue9, Tue16)
    /\ Len(ranked_slots) = 2
    /\ TimeRange(ranked_slots[1]) = TimeRange(Tue9)
    /\ TimeRange(ranked_slots[2]) = TimeRange(Tue16)
    /\ ScoreGT(ranked_slots[1].score, ranked_slots[2].score)

----------------------------------------------------------------------------
(* _score_slots called with the same constraints in every order.           *)

RECURSIVE Perms(_)
Perms(S) ==
    IF S = {} THEN {<<>>}
    ELSE UNION {{<<x>> \o q : q \in Perms(S \ {x})} : x \in S}

Permuted(list, q) == [k \in DOMAIN list |-> list[q[k]]]
Orders(list) == {Permuted(list, q) : q \in Perms(DOMAIN list)}

FloatSlotPool ==
    {<<Mon18>>, <<Tue9, Tue16>>, <<Mon18, Mon16, Tue18>>, <<Tue16, Mon18, Tue9>>}

(* What _prepare_constraints makes of a preferred time of day, with and    *)
(* without Mondays to avoid, in every order.                               *)
FloatConstraintPool ==
    Orders(PrepareConstraints(<<>>, Prefer("morning", FALSE, FALSE)))
    \cup Orders(PrepareConstraints(<<>>, Prefer("morning", TRUE, FALSE)))

FloatInit ==
    \E slots \in FloatSlotPool :
    \E cs \in FloatConstraintPool :
       /\ user_ids = <<>>
       /\ calendars = <<>>
       /\ start_time = 0
       /\ end_time = 2 * Tuesday
       /\ duration_minutes = 60
       /\ max_slots = DefaultMaxSlots
       /\ preferences = NoPreferences
       /\ request_constraints = cs
       /\ clock = 0
       /\ pc = "float"
       /\ idx = 1
       /\ all_availability = <<>>
       /\ potential_common = <<>>
       /\ visited = {}
       /\ common_slots = slots
       /\ evaluated = 0
       /\ ranked_slots = <<>>
       /\ ServiceUnused
       /\ SchedulerUnused

(* _score_slots(slots, constraints, context), in floating point.           *)
ScoreSlotsFloat ==
    /\ pc = "float"
    /\ ranked_slots' = FloatScoreSlots(common_slots, request_constraints, clock)
    /\ evaluated' = Len(common_slots) * Len(request_constraints)
    /\ pc' = "floated"
    /\ UNCHANGED <<requestVars, idx, all_availability, potential_common, visited,
                   common_slots>>

FloatSpec == FloatInit /\ [][ScoreSlotsFloat]_vars

(* The time ranges in the order of descending score.                       *)
RankedRanges(scored) ==
    LET sorted == SortedByScore(scored)
    IN  [k \in DOMAIN sorted |-> TimeRange(sorted[k])]

(* C25 as stated: for every order of the same constraints _score_slots     *)
(* gives every slot the same score, and the slots rank the same.           *)
C25_OrderIndependent ==
    pc = "floated" =>
        \A cs \in Orders(request_constraints) :
            /\ \A k \in DOMAIN common_slots :
                  ScoreEQ(FloatScoreOf(common_slots[k], cs, clock),
                          ranked_slots[k].score)
            /\ RankedRanges(FloatScoreSlots(common_slots, cs, clock))
                 = RankedRanges(ranked_slots)

(* |a - b| <= (4n + 2) * 2^(-p) * max(a, b), for scores a and b.           *)
WithinRounding(a, b, n) ==
    LET x == a.num * b.den
        y == b.num * a.den
    IN  Max(x, y) - Min(x, y) <= ((4 * n + 2) * Max(x, y)) \div Pow2(MantissaBits)

(* C25, amended: the weighted mean itself is the same for every order of   *)
(* the constraints; the scores _score_slots computes for two orders agree  *)
(* up to the rounding of the 2n operations behind each.                    *)
C25_OrderIndependentUpToRounding ==
    pc = "floated" =>
        \A cs \in Orders(request_constraints) :
            \A k \in DOMAIN common_slots :
                /\ ScoreEQ(ScoreOf(common_slots[k], cs, clock),
                           ScoreOf(common_slots[k], request_constraints, clock))
                /\ WithinRounding(FloatScoreOf(common_slots[k], cs, clock),
                                  ranked_slots[k].score,
                                  Len(request_constraints))

(* Two orders of the constraints gave a slot different scores.             *)
C25_Witness ==
    /\ pc = "floated"
    /\ \E cs \in Orders(request_constraints) :
       \E k \in DOMAIN common_slots :
          /\ ~ScoreEQ(FloatScoreOf(common_slots[k], cs, clock),
                      ranked_slots[k].score)
          /\ ScoreEQ(ScoreOf(common_slots[k], cs, clock),
                     ScoreOf(common_slots[k], request_constraints, clock))

----------------------------------------------------------------------------
(* DateRangeConstraint.evaluate on its own: one constraint, one slot.      *)

HalfDay == 12 * 60
Day(n) == n * MinutesPerDay

(* Slot starts every twelve hours over ten days.                           *)
StartPool == {k * HalfDay : k \in 0..20}

DateConstraintPool ==
    {DateRangeConstraintOf(earliest, latest, preferred[1], preferred[2], 8) :
        earliest \in {NoDate, Day(1)},
        latest \in {NoDate, Day(9)},
        preferred \in {<<Day(3), Day(4)>>, <<NoDate, NoDate>>}}

DateInit ==
    \E t \in StartPool :
    \E c \in DateConstraintPool :
       /\ user_ids = <<>>
       /\ calendars = <<>>
       /\ start_time = 0
       /\ end_time = Day(11)
       /\ duration_minutes = 60
       /\ max_slots = DefaultMaxSlots
       /\ preferences = NoPreferences
       /\ request_constraints = <<c>>
       /\ clock = 0
       /\ pc = "score"
       /\ idx = 1
       /\ all_availability = <<>>
       /\ potential_common = <<>>
       /\ visited = {}
       /\ common_slots = <<Slot(t, t + 60)>>
       /\ evaluated = 0
       /\ ranked_slots = <<>>
       /\ ServiceUnused
       /\ SchedulerUnused

DateSpec == DateInit /\ [][ScoreSlotsCall]_vars

TheConstraint == request_constraints[1]
TheStart == common_slots[1].start_time
TheScore == ranked_slots[1].score

OutsideHardBounds ==
    \/ TheConstraint.earliest_date # NoDate /\ TheStart < TheConstraint.earliest_date
    \/ TheConstraint.latest_date # NoDate /\ TheStart > TheConstraint.latest_date
HasPreferred ==
    TheConstraint.preferred_start_date # NoDate /\ TheConstraint.preferred_end_date # NoDate
InsidePreferred ==
    /\ TheConstraint.preferred_start_date <= TheStart
    /\ TheStart <= TheConstraint.preferred_end_date

(* The minutes from the slot's start to the preferred window.              *)
Distance ==
    IF TheStart < TheConstraint.preferred_start_date
    THEN TheConstraint.preferred_start_date - TheStart
    ELSE TheStart - TheConstraint.preferred_end_date

IsScore(score, tenths) == score.num * 10 = tenths * score.den

(* C27: the score is 0.0 before earliest or after latest and 1.0 inside    *)
(* the preferred window; outside the window but inside the hard bounds it  *)
(* is max(0.5, 1.0 - 0.1 d) for a distance of d days (compared here where  *)
(* d is a whole number), at least 0.5 and, however small the distance,     *)
(* strictly below 1.0.                                                     *)
C27_DateRangeProximity ==
    (pc = "scored" /\ HasPreferred) =>
        IF OutsideHardBounds THEN IsScore(TheScore, 0)
        ELSE IF InsidePreferred THEN IsScore(TheScore, 10)
        ELSE /\ TheScore.num * 2 >= TheScore.den
             /\ TheScore.num < TheScore.den
             /\ Distance % MinutesPerDay = 0 =>
                   IsScore(TheScore, Max(5, 10 - Distance \div MinutesPerDay))

----------------------------------------------------------------------------
(* CalendarService._find_common_slots as a function of the availability    *)
(* lists in the order of the participants: the fold from participant k on. *)
RECURSIVE FoldUsers(_, _, _, _)
FoldUsers(potential, availability, k, duration) ==
    IF k > Len(availability) THEN ConvertBack(potential, duration)
    ELSE LET new_common == IntersectRanges(potential, availability[k], duration)
         IN  IF EarlyExit(new_common) THEN <<>>
             ELSE FoldUsers(new_common, availability, k + 1, duration)

FindCommonSlots(availability, duration) ==
    IF availability = <<>> THEN <<>>
    ELSE FoldUsers(availability[1], availability, 2, duration)

RangesOf(slots) == {TimeRange(slots[k]) : k \in DOMAIN slots}

(* Some range of one list and some range of another share less than the    *)
(* duration: the fold discards their intersection.                         *)
DiscardsShortRange ==
    \E u, v \in DOMAIN all_availability :
        /\ u # v
        /\ \E i \in DOMAIN all_availability[u], j \in DOMAIN all_availability[v] :
              LET a == all_availability[u][i]
                  b == all_availability[v][j]
                  lo == Max(a.start_time, b.start_time)
                  hi == Min(a.end_time, b.end_time)
              IN  lo < hi /\ hi - lo < duration_minutes

(* C30: the set of (start, end) ranges _find_common_slots returns is the   *)
(* same for every order of the same participants' availability lists and   *)
(* the same duration, short ranges being discarded at every fold step.     *)
C30_ParticipantOrderIndependent ==
    AggregatorReturned =>
        \A q \in Perms(DOMAIN all_availability) :
            RangesOf(FindCommonSlots(Permuted(all_availability, q), duration_minutes))
                = RangesOf(common_slots)

C30_Witness ==
    /\ AggregatorReturned
    /\ Len(all_availability) = 3
    /\ common_slots # <<>>
    /\ DiscardsShortRange
    /\ \E q \in Perms(DOMAIN all_availability) :
          FindCommonSlots(Permuted(all_availability, q), duration_minutes)
              # common_slots

============================================================================
